---- MODULE Spec2Model ----
(***************************************************************************)
(* A model of the files-storage-system BitTorrent client: the piece store  *)
(* (file/piece_manager.rs, core/types.rs), the wire codec and the          *)
(* streaming decoder (protocol/mod.rs, protocol/handshake.rs), the peer    *)
(* registry (peer/peer.rs, peer/manager.rs) and the peer session           *)
(* (network/mod.rs).  Each subsystem has its own specification; the        *)
(* variables of the other subsystems stay at their initial values.         *)
(***************************************************************************)
EXTENDS Integers, Sequences, FiniteSets, TLC

VARIABLES
    \* ---- PieceManager (file/piece_manager.rs)
    pieces,         \* PieceIndex -> [data, hash, verified]
    bitfield,       \* PieceIndex -> BOOLEAN
    piece_cache,    \* PieceIndex -> payload or None
    cache_size,     \* configured cache capacity
    lastOp,         \* the last PieceManager call and what it returned
    \* ---- the torrent's files on disk (file/piece_manager.rs, file/manager.rs)
    files,          \* the content of each file, in the order of file_paths
    file_sizes,     \* the lengths of the torrent's files, in declared order
    path_order,     \* path_order[i]: the declared file whose path is the i-th
                    \* of FileManager::file_paths.values()
    \* ---- Message codec (protocol/mod.rs), applied to one message
    msg,            \* the Message handed to serialize
    wire,           \* the bytes serialize returned
    decoded,        \* what deserialize returned on those bytes
    codecPc,        \* "built", "serialized", "deserialized"
    \* ---- ProtocolHandler receiving a byte stream (protocol/mod.rs)
    sentMsgs,       \* the messages the remote serialized, in order
    netPending,     \* bytes written by the remote and not yet read
    buffer,         \* ProtocolHandler::buffer
    received,       \* the results receive_message returned, in order
    rxPc,           \* "open", or "eof" once read returned 0
    \* ---- Handshake codec (protocol/handshake.rs), applied to one handshake
    hs,             \* the Handshake built by Handshake::new
    hsBytes,        \* the buffer handed to Handshake::deserialize
    hsOut,          \* what Handshake::deserialize returned
    hsPc,           \* "built", "serialized", "deserialized"
    hsTampers,      \* how often the buffer was altered after serialize
    \* ---- PeerManager (peer/manager.rs) and its Peers (peer/peer.rs)
    peers,              \* PeerId -> Peer, on the registered ids
    unchoked_peers,     \* PeerManager::unchoked_peers
    optimistic_unchoke, \* PeerManager::optimistic_unchoke (an Option)
    max_peers,          \* PeerManager::max_peers
    chokeRounds,        \* whether an update_choking round has completed
    regRet,             \* the last PeerManager / Peer call and its result
    lastBest,           \* what best_peers_for_piece returned last
    our_bitfield,       \* PeerManager::our_bitfield, the set bits
    num_pieces,         \* PeerManager::our_bitfield.num_pieces
    lastRarest,         \* what rarest_pieces returned last
    \* ---- one peer session of NetworkManager (network/mod.rs)
    sessPc,             \* "accepted", "loop", "closed"
    sessOut,            \* what send_message wrote, in order, with the flow
                        \* bits of the peer at the time of the write
    sessHandled,        \* the message handle_message handled last (an Option),
                        \* with the peer's state when handle_message returned
    \* ---- one Bitfield (core/types.rs)
    bf_bits,            \* Bitfield::bits, a sequence of num_pieces booleans
    bf_bytes,           \* the bytes the last call returned (to_bytes) or was
                        \* given (from_bytes), empty after any other call
    bf_op,              \* the last Bitfield call
    \* ---- MessageValidator::validate_request applied to one message
    vr_msg,             \* the Message
    vr_max,             \* max_piece_size, a u32
    vr_ret,             \* "none", "true", "false" or "panic"
    \* ---- one inbound connection of NetworkManager before its message loop
    torrents,           \* the info hashes of NetworkManager::torrent_info
    connPc,             \* where handle_incoming_connection is
    connLog,            \* the handshakes written and read, in order
    \* ---- one ConnectionManager (network/connection.rs)
    cm_state,           \* ConnectionInfo::state
    cm_handler,         \* whether protocol_handler is Some
    cm_last,            \* the last ConnectionManager call, the state it
                        \* found and what it returned
    \* ---- the message loop of one session against a silent remote
    stall_pc,           \* "loop" or "closed"
    stall_idle,         \* receive timeouts since the last message received
    stall_ka,           \* parity of the Keep-Alives written
    \* ---- the tasks of NetworkManager on its two RwLocks (network/mod.rs)
    lk_pc,              \* task -> where it is
    lk_held,            \* task -> the locks it holds
    lk_queue            \* lock -> the tasks waiting for it, first in first out

storeVars == <<pieces, bitfield, piece_cache, cache_size, lastOp>>
codecVars == <<msg, wire, decoded, codecPc>>
streamVars == <<sentMsgs, netPending, buffer, received, rxPc>>
handshakeVars == <<hs, hsBytes, hsOut, hsPc, hsTampers>>
fileVars == <<files, file_sizes, path_order>>
bitfieldVars == <<bf_bits, bf_bytes, bf_op>>
validateVars == <<vr_msg, vr_max, vr_ret>>
connVars == <<torrents, connPc, connLog>>
cmVars == <<cm_state, cm_handler, cm_last>>
stallVars == <<stall_pc, stall_idle, stall_ka>>
lockVars == <<lk_pc, lk_held, lk_queue>>
registryVars ==
    <<peers, unchoked_peers, optimistic_unchoke, max_peers, chokeRounds, regRet,
      lastBest, our_bitfield, num_pieces, lastRarest>>

sessionVars == <<sessPc, sessOut, sessHandled>>

vars ==
    <<storeVars, codecVars, streamVars, handshakeVars, registryVars, sessionVars,
      fileVars, bitfieldVars, validateVars, connVars, cmVars, stallVars, lockVars>>

\* what the operations of one subsystem leave alone
nonStoreVars ==
    <<codecVars, streamVars, handshakeVars, registryVars, sessionVars, fileVars,
      bitfieldVars, validateVars, connVars,
      cmVars, stallVars, lockVars>>
nonCodecVars ==
    <<storeVars, streamVars, handshakeVars, registryVars, sessionVars, fileVars,
      bitfieldVars, validateVars, connVars,
      cmVars, stallVars, lockVars>>
nonStreamVars ==
    <<storeVars, codecVars, handshakeVars, registryVars, sessionVars, fileVars,
      bitfieldVars, validateVars, connVars,
      cmVars, stallVars, lockVars>>
nonHandshakeVars ==
    <<storeVars, codecVars, streamVars, registryVars, sessionVars, fileVars,
      bitfieldVars, validateVars, connVars,
      cmVars, stallVars, lockVars>>
nonRegistryVars ==
    <<storeVars, codecVars, streamVars, handshakeVars, sessionVars, fileVars,
      bitfieldVars, validateVars, connVars,
      cmVars, stallVars, lockVars>>
nonBitfieldVars ==
    <<storeVars, codecVars, streamVars, handshakeVars, registryVars, sessionVars,
      fileVars, validateVars, connVars,
      cmVars, stallVars, lockVars>>
nonValidateVars ==
    <<storeVars, codecVars, streamVars, handshakeVars, registryVars, sessionVars,
      fileVars, bitfieldVars, connVars,
      cmVars, stallVars, lockVars>>
nonConnVars ==
    <<storeVars, codecVars, streamVars, handshakeVars, registryVars, sessionVars,
      fileVars, bitfieldVars, validateVars,
      cmVars, stallVars, lockVars>>
nonCmVars ==
    <<storeVars, codecVars, streamVars, handshakeVars, registryVars, sessionVars,
      fileVars, bitfieldVars, validateVars, connVars, stallVars, lockVars>>
nonStallVars ==
    <<storeVars, codecVars, streamVars, handshakeVars, registryVars, sessionVars,
      fileVars, bitfieldVars, validateVars, connVars, cmVars, lockVars>>
nonLockVars ==
    <<storeVars, codecVars, streamVars, handshakeVars, registryVars, sessionVars,
      fileVars, bitfieldVars, validateVars, connVars, cmVars, stallVars>>
nonFileVars ==
    <<codecVars, streamVars, handshakeVars, registryVars, sessionVars,
      bitfieldVars, validateVars, connVars,
      cmVars, stallVars, lockVars>>
nonSessionVars ==
    <<storeVars, codecVars, streamVars, handshakeVars, fileVars,
      bitfieldVars, validateVars, connVars,
      cmVars, stallVars, lockVars>>

\* Option<T>: None is the empty sequence, Some(x) the one-element sequence
None == <<>>
Some(x) == <<x>>
Unwrap(o) == o[1]

(***************************************************************************)
(* Bounds of the piece store model.                                        *)
(***************************************************************************)
NumPieces == 2
NumData == 3
NumDigests == 2
MaxCache == 2

PieceIdx == 0 .. (NumPieces - 1)
\* piece payloads, as abstract byte strings
Data == 1 .. NumData
\* the digests SHA-1 can produce on the payloads
Digests == 0 .. (NumDigests - 1)

\* sha1::Sha1 digest of a payload: a fixed many-to-one function
Sha1(d) == d % NumDigests

\* Piece::new
PieceNew(h) == [data |-> None, hash |-> h, verified |-> FALSE]

\* Piece::verify taking any data that is present as verified
PieceVerifyFlagLax(p) ==
    IF p.data # None THEN TRUE ELSE p.verified

\* Piece::verify: the value of `verified` after the call
PieceVerifyFlag(p) ==
    IF p.data # None THEN Sha1(Unwrap(p.data)) = p.hash ELSE p.verified

\* Piece::verify: the value returned
PieceVerifyResult(p) ==
    IF p.data # None THEN Sha1(Unwrap(p.data)) = p.hash ELSE FALSE

\* Piece::set_data: the piece after the call
PieceSetData(p, d) ==
    LET q == [p EXCEPT !.data = Some(d)]
    IN [q EXCEPT !.verified = PieceVerifyFlag(q)]

\* PieceManager::is_valid_piece
IsValidPiece(i) == i < NumPieces

\* keys of the cache HashMap
CacheKeys(c) == {i \in PieceIdx : c[i] # None}

\* PieceManager::get_piece_data
GetPieceData(i) ==
    IF piece_cache[i] # None THEN piece_cache[i] ELSE pieces[i].data

\* Bitfield::available_pieces on the store's bitfield
CompletedPieces == {i \in PieceIdx : bitfield[i]}

\* PieceManager::new
StoreInit ==
    /\ pieces \in [PieceIdx -> {PieceNew(h) : h \in Digests}]
    /\ bitfield = [i \in PieceIdx |-> FALSE]
    /\ piece_cache = [i \in PieceIdx |-> None]
    /\ cache_size \in 0 .. MaxCache
    /\ lastOp = [op |-> "new", idx |-> 0, data |-> None, ret |-> "Ok", failed |-> {}]

\* the cache after add_piece_data's insertion of a verified piece: when the
\* cache is full one key, the first the HashMap iterator yields, is dropped
CacheAfterInsert(c, i, d) ==
    IF Cardinality(CacheKeys(c)) >= cache_size /\ CacheKeys(c) # {}
    THEN {[c EXCEPT ![k] = None, ![i] = Some(d)] : k \in CacheKeys(c)}
    ELSE {[c EXCEPT ![i] = Some(d)]}

\* PieceManager::add_piece_data
AddPieceData(i, d) ==
    IF ~IsValidPiece(i)
    THEN /\ lastOp' = [op |-> "add_piece_data", idx |-> i, data |-> Some(d), ret |-> "Err", failed |-> {}]
         /\ UNCHANGED <<pieces, bitfield, piece_cache, cache_size>>
         /\ UNCHANGED nonStoreVars
    ELSE LET p == PieceSetData(pieces[i], d)
         IN /\ pieces' = [pieces EXCEPT ![i] = p]
            /\ IF p.verified
               THEN /\ bitfield' = [bitfield EXCEPT ![i] = TRUE]
                    /\ piece_cache' \in CacheAfterInsert(piece_cache, i, d)
               ELSE UNCHANGED <<bitfield, piece_cache>>
            /\ lastOp' = [op |-> "add_piece_data", idx |-> i, data |-> Some(d),
                          ret |-> IF p.verified THEN "Ok(true)" ELSE "Ok(false)",
                          failed |-> {}]
            /\ UNCHANGED cache_size
            /\ UNCHANGED nonStoreVars

\* PieceManager::evict_from_cache
EvictFromCache(i) ==
    /\ piece_cache' = [k \in PieceIdx |-> IF k = i THEN None ELSE piece_cache[k]]
    /\ lastOp' = [op |-> "evict_from_cache", idx |-> i, data |-> None, ret |-> "Ok", failed |-> {}]
    /\ UNCHANGED <<pieces, bitfield, cache_size>>
    /\ UNCHANGED nonStoreVars

\* PieceManager::clear_cache
ClearCache ==
    /\ piece_cache' = [k \in PieceIdx |-> None]
    /\ lastOp' = [op |-> "clear_cache", idx |-> 0, data |-> None, ret |-> "Ok", failed |-> {}]
    /\ UNCHANGED <<pieces, bitfield, cache_size>>
    /\ UNCHANGED nonStoreVars

\* verify_all_pieces reporting every completed piece
FailedPiecesAll == CompletedPieces

\* the pieces verify_all_pieces reports as failed
FailedPieces == {i \in CompletedPieces : ~PieceVerifyResult(pieces[i])}

\* PieceManager::verify_all_pieces
VerifyAllPieces ==
    /\ pieces' = [i \in PieceIdx |->
                    IF i \in FailedPieces
                    THEN [pieces[i] EXCEPT !.data = None, !.verified = FALSE]
                    ELSE IF i \in CompletedPieces
                         THEN [pieces[i] EXCEPT !.verified = PieceVerifyFlag(pieces[i])]
                         ELSE pieces[i]]
    /\ bitfield' = [i \in PieceIdx |-> bitfield[i] /\ i \notin FailedPieces]
    /\ piece_cache' = [i \in PieceIdx |->
                         IF i \in FailedPieces THEN None ELSE piece_cache[i]]
    /\ lastOp' = [op |-> "verify_all_pieces", idx |-> 0, data |-> None,
                  ret |-> "Ok", failed |-> FailedPieces]
    /\ UNCHANGED cache_size
    /\ UNCHANGED nonStoreVars

StoreNext ==
    \/ \E i \in 0 .. NumPieces, d \in Data : AddPieceData(i, d)
    \/ \E i \in 0 .. NumPieces : EvictFromCache(i)
    \/ ClearCache
    \/ VerifyAllPieces

\* no PieceManager has been constructed
StoreIdle ==
    /\ pieces = <<>>
    /\ bitfield = <<>>
    /\ piece_cache = <<>>
    /\ cache_size = 0
    /\ lastOp = [op |-> "none", idx |-> 0, data |-> None, ret |-> "Ok", failed |-> {}]

(***************************************************************************)
(* The wire codec: protocol/mod.rs, protocol/messages.rs.  Bytes are the   *)
(* integers 0..255, byte strings are sequences of them.                    *)
(***************************************************************************)
\* bound on the length of variable-length payload parts (blocks, bitfields)
MaxBlock == 1

RECURSIVE Pow256(_)
Pow256(k) == IF k = 0 THEN 1 ELSE 256 * Pow256(k - 1)

\* BufMut::put_u32 / put_u16: big-endian bytes of v
PutU32(v) == [k \in 1 .. 4 |-> (v \div Pow256(4 - k)) % 256]
PutU16(v) == [k \in 1 .. 2 |-> (v \div Pow256(2 - k)) % 256]

\* Buf::get_u32 / u32::from_be_bytes on the first four bytes of b
GetU32(b) == b[1] * Pow256(3) + b[2] * Pow256(2) + b[3] * 256 + b[4]

\* enum MessageType and its discriminants (MessageType as u8)
MessageTypes ==
    {"Choke", "Unchoke", "Interested", "NotInterested", "Have", "Bitfield",
     "Request", "Piece", "Cancel", "Port", "KeepAlive"}

TypeToU8(t) ==
    CASE t = "Choke" -> 0
      [] t = "Unchoke" -> 1
      [] t = "Interested" -> 2
      [] t = "NotInterested" -> 3
      [] t = "Have" -> 4
      [] t = "Bitfield" -> 5
      [] t = "Request" -> 6
      [] t = "Piece" -> 7
      [] t = "Cancel" -> 8
      [] t = "Port" -> 9
      [] OTHER -> 255

\* impl From<u8> for MessageType
U8ToType(v) ==
    CASE v = 0 -> "Choke"
      [] v = 1 -> "Unchoke"
      [] v = 2 -> "Interested"
      [] v = 3 -> "NotInterested"
      [] v = 4 -> "Have"
      [] v = 5 -> "Bitfield"
      [] v = 6 -> "Request"
      [] v = 7 -> "Piece"
      [] v = 8 -> "Cancel"
      [] v = 9 -> "Port"
      [] OTHER -> "KeepAlive"

\* Message::new and the constructors
MessageNew(t, payload) == [message_type |-> t, payload |-> payload]
KeepAliveMsg == MessageNew("KeepAlive", <<>>)
ChokeMsg == MessageNew("Choke", <<>>)
UnchokeMsg == MessageNew("Unchoke", <<>>)
InterestedMsg == MessageNew("Interested", <<>>)
NotInterestedMsg == MessageNew("NotInterested", <<>>)
HaveMsg(i) == MessageNew("Have", PutU32(i))
BitfieldMsg(bytes) == MessageNew("Bitfield", bytes)
RequestMsg(i, off, len) == MessageNew("Request", PutU32(i) \o PutU32(off) \o PutU32(len))
PieceMsg(i, off, data) == MessageNew("Piece", PutU32(i) \o PutU32(off) \o data)
CancelMsg(i, off, len) == MessageNew("Cancel", PutU32(i) \o PutU32(off) \o PutU32(len))
PortMsg(port) == MessageNew("Port", PutU16(port))

\* Message::serialize_keep_alive
SerializeKeepAlive == <<0, 0, 0, 0>>

\* Message::serialize
Serialize(m) ==
    PutU32(1 + Len(m.payload))
        \o <<TypeToU8(m.message_type)>> \o m.payload

\* io::Result<Message>
OkMsg(m) == [ok |-> TRUE, msg |-> <<m>>, err |-> ""]
ErrMsg(e) == [ok |-> FALSE, msg |-> <<>>, err |-> e]

\* Message::deserialize with the payload slice of a skewed length
DeserializeSkewed(data) ==
    IF Len(data) < 5
    THEN ErrMsg("Message too short")
    ELSE LET message_length == GetU32(data)
         IN IF message_length = 0
            THEN OkMsg(KeepAliveMsg)
            ELSE IF Len(data) < 5 + message_length - 1
                 THEN ErrMsg("Incomplete message")
                 ELSE OkMsg(MessageNew(U8ToType(data[5]),
                                       SubSeq(data, 6, 5 + message_length - 2)))

\* Message::deserialize
Deserialize(data) ==
    IF Len(data) < 5
    THEN ErrMsg("Message too short")
    ELSE LET message_length == GetU32(data)
         IN IF message_length = 0
            THEN OkMsg(KeepAliveMsg)
            ELSE IF Len(data) < 5 + message_length - 1
                 THEN ErrMsg("Incomplete message")
                 ELSE OkMsg(MessageNew(U8ToType(data[5]),
                                       SubSeq(data, 6, 5 + message_length - 1)))

\* MessageValidator::is_valid
IsValid(m) ==
    CASE m.message_type \in {"Choke", "Unchoke", "Interested", "NotInterested"} ->
            m.payload = <<>>
      [] m.message_type = "Have" -> Len(m.payload) = 4
      [] m.message_type = "Bitfield" -> m.payload # <<>>
      [] m.message_type \in {"Request", "Cancel"} -> Len(m.payload) = 12
      [] m.message_type = "Piece" -> Len(m.payload) >= 8
      [] m.message_type = "Port" -> Len(m.payload) = 2
      [] OTHER -> m.payload = <<>>

\* sample values of the u32, u16 and u8 arguments of the constructors
\* (TLC's integers are 32-bit signed: the samples stay below 2^31)
U32Samples == {0, 1, 258, 16384, 2147483647}
U16Samples == {0, 6881, 65535}
ByteSamples == {0, 1, 255}

RECURSIVE SeqsUpTo(_, _)
SeqsUpTo(S, n) ==
    IF n = 0 THEN {<<>>}
    ELSE LET shorter == SeqsUpTo(S, n - 1)
         IN shorter \cup {Append(q, x) : q \in shorter, x \in S}

ByteStrings == SeqsUpTo(ByteSamples, MaxBlock)

\* the messages the constructors build
BuiltMessages ==
    {KeepAliveMsg, ChokeMsg, UnchokeMsg, InterestedMsg, NotInterestedMsg}
    \cup {HaveMsg(i) : i \in U32Samples}
    \cup {BitfieldMsg(b) : b \in ByteStrings}
    \cup {RequestMsg(i, o, l) : i \in {0, 1}, o \in U32Samples, l \in U32Samples}
    \cup {PieceMsg(i, o, d) : i \in {0, 1}, o \in {0, 16384}, d \in ByteStrings}
    \cup {CancelMsg(i, o, l) : i \in {0, 1}, o \in {0, 16384}, l \in {1, 16384}}
    \cup {PortMsg(p) : p \in U16Samples}

\* messages built with Message::new and a payload of the wrong length
OddMessages ==
    {MessageNew(t, b) : t \in {"Choke", "Have", "Port", "KeepAlive"},
                        b \in ByteStrings \ {<<>>}}

\* a caller builds one message
CodecInit ==
    /\ msg \in BuiltMessages \cup OddMessages
    /\ wire = <<>>
    /\ decoded = ErrMsg("")
    /\ codecPc = "built"

CodecIdle ==
    /\ msg = KeepAliveMsg
    /\ wire = <<>>
    /\ decoded = ErrMsg("")
    /\ codecPc = "idle"

\* let serialized = message.serialize()
SerializeStep ==
    /\ codecPc = "built"
    /\ wire' = Serialize(msg)
    /\ codecPc' = "serialized"
    /\ UNCHANGED <<msg, decoded>>
    /\ UNCHANGED nonCodecVars

\* let deserialized = Message::deserialize(&serialized)
DeserializeStep ==
    /\ codecPc = "serialized"
    /\ decoded' = Deserialize(wire)
    /\ codecPc' = "deserialized"
    /\ UNCHANGED <<msg, wire>>
    /\ UNCHANGED nonCodecVars

CodecNext == SerializeStep \/ DeserializeStep

(***************************************************************************)
(* ProtocolHandler::receive_message on a TCP byte stream.                  *)
(***************************************************************************)
\* bound on the number of messages the remote writes
MaxMsgs == 2

\* size of the chunk one socket read fills
ChunkSize == 1024

Min(a, b) == IF a < b THEN a ELSE b

\* BytesMut::advance(n)
Advance(buf, n) == SubSeq(buf, n + 1, Len(buf))

\* io::Result<Option<Message>> with the buffer left behind
ParseNone(buf) == [kind |-> "none", result |-> ErrMsg(""), rest |-> buf]
ParseDone(r, buf) ==
    [kind |-> IF r.ok THEN "some" ELSE "err", result |-> r, rest |-> buf]

\* try_parse_message that consumes one byte less than the frame
TryParseShortAdvance(buf) ==
    IF Len(buf) < 4
    THEN ParseNone(buf)
    ELSE LET message_length == GetU32(buf)
             total_length == 4 + message_length
         IN IF message_length = 0
            THEN ParseDone(OkMsg(KeepAliveMsg), Advance(buf, 4))
            ELSE IF Len(buf) < total_length
                 THEN ParseNone(buf)
                 ELSE ParseDone(Deserialize(SubSeq(buf, 1, total_length)),
                                Advance(buf, total_length - 1))

\* ProtocolHandler::try_parse_message
TryParseMessage(buf) ==
    IF Len(buf) < 4
    THEN ParseNone(buf)
    ELSE LET message_length == GetU32(buf)
             total_length == 4 + message_length
         IN IF message_length = 0
            THEN ParseDone(OkMsg(KeepAliveMsg), Advance(buf, 4))
            ELSE IF Len(buf) < total_length
                 THEN ParseNone(buf)
                 ELSE ParseDone(Deserialize(SubSeq(buf, 1, total_length)),
                                Advance(buf, total_length))

\* the byte stream a sequence of send_message calls writes
RECURSIVE WireOf(_)
WireOf(ms) == IF ms = <<>> THEN <<>> ELSE Serialize(Head(ms)) \o WireOf(Tail(ms))

\* the messages the remote sends in the stream model
StreamMessages ==
    {KeepAliveMsg, UnchokeMsg, HaveMsg(1), BitfieldMsg(<<0>>), PieceMsg(0, 0, <<255>>)}

\* ProtocolHandler::new on a stream the remote writes sentMsgs to
StreamInit ==
    /\ sentMsgs \in SeqsUpTo(StreamMessages, MaxMsgs)
    /\ netPending = WireOf(sentMsgs)
    /\ buffer = <<>>
    /\ received = <<>>
    /\ rxPc = "open"

StreamIdle ==
    /\ sentMsgs = <<>>
    /\ netPending = <<>>
    /\ buffer = <<>>
    /\ received = <<>>
    /\ rxPc = "idle"

\* receive_message: try_parse_message yields a message or an error, which is
\* returned to the caller
RecvReturn ==
    /\ rxPc = "open"
    /\ TryParseMessage(buffer).kind # "none"
    /\ received' = Append(received, TryParseMessage(buffer).result)
    /\ buffer' = TryParseMessage(buffer).rest
    /\ rxPc' = IF TryParseMessage(buffer).kind = "err" THEN "failed" ELSE "open"
    /\ UNCHANGED <<sentMsgs, netPending>>
    /\ UNCHANGED nonStreamVars

\* receive_message: no complete message buffered, the socket read yields n bytes
RecvRead(n) ==
    /\ rxPc = "open"
    /\ TryParseMessage(buffer).kind = "none"
    /\ n >= 1
    /\ n <= Min(Len(netPending), ChunkSize)
    /\ buffer' = buffer \o SubSeq(netPending, 1, n)
    /\ netPending' = Advance(netPending, n)
    /\ UNCHANGED <<sentMsgs, received, rxPc>>
    /\ UNCHANGED nonStreamVars

\* receive_message: the socket read yields 0 bytes, UnexpectedEof is returned
RecvEof ==
    /\ rxPc = "open"
    /\ TryParseMessage(buffer).kind = "none"
    /\ netPending = <<>>
    /\ rxPc' = "eof"
    /\ UNCHANGED <<sentMsgs, netPending, buffer, received>>
    /\ UNCHANGED nonStreamVars

StreamNext ==
    \/ RecvReturn
    \/ \E n \in 1 .. ChunkSize : RecvRead(n)
    \/ RecvEof

\* bound on the number of bytes that follow an oversized length prefix
MaxTail == 2

\* length prefixes above 2^17 a remote can write
OversizeLengths == {131073, 16777216}

\* ProtocolHandler::new on a stream where the remote writes sentMsgs and then
\* a frame that starts with an oversized length prefix
OversizeInit ==
    /\ sentMsgs \in SeqsUpTo(StreamMessages, MaxMsgs - 1)
    /\ \E l \in OversizeLengths, tail \in SeqsUpTo({0, 255}, MaxTail) :
          netPending = WireOf(sentMsgs) \o PutU32(l) \o tail
    /\ buffer = <<>>
    /\ received = <<>>
    /\ rxPc = "open"

(***************************************************************************)
(* The handshake codec: protocol/handshake.rs.                             *)
(***************************************************************************)
\* bound on the alterations of a serialized handshake
MaxTamper == 1

\* length of a serialized handshake
HandshakeLen == 68

\* length of the protocol identifier
PstrLen == 19

\* b"BitTorrent protocol"
ProtocolIdentifier ==
    <<66, 105, 116, 84, 111, 114, 114, 101, 110, 116, 32,
      112, 114, 111, 116, 111, 99, 111, 108>>

\* [b; n]
Repeat(b, n) == [k \in 1 .. n |-> b]

\* sample 20-byte values of info_hash and peer_id
Hash20Samples ==
    {Repeat(0, 20), Repeat(1, 20), [k \in 1 .. 20 |-> IF k = 1 THEN 19 ELSE 255 - k]}

\* Handshake::new
HandshakeNew(info_hash, peer_id) ==
    [protocol_identifier |-> ProtocolIdentifier,
     reserved |-> Repeat(0, 8),
     info_hash |-> info_hash,
     peer_id |-> peer_id]

\* Handshake::serialize
HandshakeSerialize(h) ==
    <<Len(h.protocol_identifier)>> \o h.protocol_identifier \o h.reserved
        \o h.info_hash \o h.peer_id

\* io::Result<Handshake>
OkHs(h) == [ok |-> TRUE, hs |-> <<h>>, err |-> ""]
ErrHs(e) == [ok |-> FALSE, hs |-> <<>>, err |-> e]

\* Handshake::deserialize that takes peer_id from the info_hash bytes
HandshakeDeserializeSamePeer(data) ==
    IF Len(data) # HandshakeLen
    THEN ErrHs("Invalid handshake length")
    ELSE IF data[1] # PstrLen
         THEN ErrHs("Invalid protocol length")
         ELSE IF SubSeq(data, 2, 20) # ProtocolIdentifier
              THEN ErrHs("Invalid protocol identifier")
              ELSE OkHs([protocol_identifier |-> SubSeq(data, 2, 20),
                         reserved |-> SubSeq(data, 21, 28),
                         info_hash |-> SubSeq(data, 29, 48),
                         peer_id |-> SubSeq(data, 29, 48)])

\* Handshake::deserialize without the comparison of the protocol identifier
HandshakeDeserializeNoLiteral(data) ==
    IF Len(data) # HandshakeLen
    THEN ErrHs("Invalid handshake length")
    ELSE IF data[1] # PstrLen
         THEN ErrHs("Invalid protocol length")
         ELSE OkHs([protocol_identifier |-> SubSeq(data, 2, 20),
                    reserved |-> SubSeq(data, 21, 28),
                    info_hash |-> SubSeq(data, 29, 48),
                    peer_id |-> SubSeq(data, 49, 68)])

\* Handshake::deserialize: the checks of the buffer
HandshakeCheck(data) ==
    IF Len(data) # HandshakeLen
    THEN "Invalid handshake length"
    ELSE IF data[1] # PstrLen
         THEN "Invalid protocol length"
         ELSE IF SubSeq(data, 2, 20) # ProtocolIdentifier
              THEN "Invalid protocol identifier"
              ELSE ""

\* Handshake::deserialize: the fields read from a buffer
HandshakeFields(data) ==
    [protocol_identifier |-> SubSeq(data, 2, 20),
     reserved |-> SubSeq(data, 21, 28),
     info_hash |-> SubSeq(data, 29, 48),
     peer_id |-> SubSeq(data, 49, 68)]

\* Handshake::deserialize
HandshakeDeserialize(data) ==
    IF HandshakeCheck(data) # ""
    THEN ErrHs(HandshakeCheck(data))
    ELSE OkHs(HandshakeFields(data))

\* a caller builds one handshake
HandshakeInit ==
    /\ hs \in {HandshakeNew(ih, pid) : ih \in Hash20Samples, pid \in Hash20Samples}
    /\ hsBytes = <<>>
    /\ hsOut = ErrHs("")
    /\ hsPc = "built"
    /\ hsTampers = 0

HandshakeIdle ==
    /\ hs = HandshakeNew(Repeat(0, 20), Repeat(0, 20))
    /\ hsBytes = <<>>
    /\ hsOut = ErrHs("")
    /\ hsPc = "idle"
    /\ hsTampers = 0

\* let serialized = handshake.serialize()
HsSerialize ==
    /\ hsPc = "built"
    /\ hsBytes' = HandshakeSerialize(hs)
    /\ hsPc' = "serialized"
    /\ UNCHANGED <<hs, hsOut, hsTampers>>
    /\ UNCHANGED nonHandshakeVars

\* byte positions at the borders of the handshake's fields, and byte values
TamperPositions == {1, 2, 20, 21, 28, 29, 48, 49, 68}
TamperBytes == {0, 19, 20, 255}

\* the buffer a caller passes differs from a serialized handshake in one byte
HsAlterByte(k, b) ==
    /\ hsPc = "serialized"
    /\ hsTampers < MaxTamper
    /\ k <= Len(hsBytes)
    /\ hsBytes[k] # b
    /\ hsBytes' = [hsBytes EXCEPT ![k] = b]
    /\ hsTampers' = hsTampers + 1
    /\ UNCHANGED <<hs, hsOut, hsPc>>
    /\ UNCHANGED nonHandshakeVars

\* the buffer a caller passes is a proper prefix of a serialized handshake
HsTruncate(n) ==
    /\ hsPc = "serialized"
    /\ hsTampers < MaxTamper
    /\ n < Len(hsBytes)
    /\ hsBytes' = SubSeq(hsBytes, 1, n)
    /\ hsTampers' = hsTampers + 1
    /\ UNCHANGED <<hs, hsOut, hsPc>>
    /\ UNCHANGED nonHandshakeVars

\* the buffer a caller passes has a byte after a serialized handshake
HsExtend(b) ==
    /\ hsPc = "serialized"
    /\ hsTampers < MaxTamper
    /\ hsBytes' = Append(hsBytes, b)
    /\ hsTampers' = hsTampers + 1
    /\ UNCHANGED <<hs, hsOut, hsPc>>
    /\ UNCHANGED nonHandshakeVars

\* Handshake::deserialize(&buffer)
HsDeserialize ==
    /\ hsPc = "serialized"
    /\ hsOut' = HandshakeDeserialize(hsBytes)
    /\ hsPc' = "deserialized"
    /\ UNCHANGED <<hs, hsBytes, hsTampers>>
    /\ UNCHANGED nonHandshakeVars

HandshakeNext ==
    \/ HsSerialize
    \/ \E k \in TamperPositions, b \in TamperBytes : HsAlterByte(k, b)
    \/ \E n \in {0, 1, 20, 48, 67} : HsTruncate(n)
    \/ \E b \in TamperBytes : HsExtend(b)
    \/ HsDeserialize

(***************************************************************************)
(* The pieces on disk: PieceManager::write_to_files and load_from_files.   *)
(* The files exist with their declared sizes (FileManager::allocate_files  *)
(* creates them with set_len), a read or write transfers all the bytes     *)
(* asked for, and every piece has piece_length bytes.                      *)
(***************************************************************************)
\* bound: PieceManager::piece_length, in bytes
PieceLen == 2

\* the bytes of a payload; payload 0 is the all-zero block of a fresh file
PieceBytes(d) == [k \in 1 .. PieceLen |-> IF d = 0 THEN 0 ELSE 16 * d + k]

\* the payload a block of bytes is
DataOfBytes(b) ==
    IF \E d \in Data : PieceBytes(d) = b
    THEN CHOOSE d \in Data : PieceBytes(d) = b
    ELSE 0

\* the file_sizes of the torrent: one file, or two files of any sizes
FileLayouts ==
    {<<NumPieces * PieceLen>>}
    \cup {<<a, NumPieces * PieceLen - a>> : a \in 1 .. (NumPieces * PieceLen - 1)}

\* file_sizes.iter().sum()
RECURSIVE SumSizes(_)
SumSizes(sizes) == IF sizes = <<>> THEN 0 ELSE Head(sizes) + SumSizes(Tail(sizes))

\* PieceManager::new with cache_size = MaxCache, and files allocated by
\* FileManager::allocate_files
FilesInit ==
    /\ pieces \in [PieceIdx -> {PieceNew(h) : h \in Digests}]
    /\ bitfield = [i \in PieceIdx |-> FALSE]
    /\ piece_cache = [i \in PieceIdx |-> None]
    /\ cache_size = MaxCache
    /\ lastOp = [op |-> "new", idx |-> 0, data |-> None, ret |-> "Ok", failed |-> {}]
    /\ file_sizes \in FileLayouts
    /\ path_order = [f \in 1 .. Len(file_sizes) |-> f]
    /\ files = [f \in 1 .. Len(file_sizes) |-> [k \in 1 .. file_sizes[f] |-> 0]]

FilesIdle ==
    /\ files = <<>>
    /\ file_sizes = <<>>
    /\ path_order = <<>>

\* write_to_files: the while loop that writes one piece, possibly across files
RECURSIVE WriteSpans(_, _, _, _, _)
WriteSpans(fs, data, bytes_written, file_index, file_offset) ==
    IF ~(bytes_written < Len(data) /\ file_index < Len(file_sizes))
    THEN fs
    ELSE LET file_size == file_sizes[file_index + 1]
         IN IF file_offset >= file_size
            THEN WriteSpans(fs, data, bytes_written, file_index + 1,
                            file_offset - file_size)
            ELSE LET to_write == Min(Len(data) - bytes_written, file_size - file_offset)
                     f == fs[file_index + 1]
                     \* a write that ends past the end of the file extends
                     \* it, a seek past the end leaves zero bytes between
                     end == IF file_offset + to_write > Len(f)
                            THEN file_offset + to_write ELSE Len(f)
                     g == [k \in 1 .. end |->
                             IF k > file_offset /\ k <= file_offset + to_write
                             THEN data[bytes_written + (k - file_offset)]
                             ELSE IF k <= Len(f) THEN f[k] ELSE 0]
                 IN WriteSpans([fs EXCEPT ![file_index + 1] = g], data,
                               bytes_written + to_write, file_index + 1, 0)

\* write_to_files: the loop over the pieces from piece_index on; the files
\* written and whether Ok was returned
RECURSIVE WriteFrom(_, _, _)
WriteFrom(fs, piece_index, current_offset) ==
    IF piece_index >= NumPieces
    THEN [files |-> fs, ok |-> TRUE]
    ELSE IF ~bitfield[piece_index]
         THEN WriteFrom(fs, piece_index + 1, current_offset)
         ELSE IF GetPieceData(piece_index) = None
              THEN [files |-> fs, ok |-> FALSE]
              ELSE LET data == PieceBytes(Unwrap(GetPieceData(piece_index)))
                   IN WriteFrom(WriteSpans(fs, data, 0, 0, current_offset),
                                piece_index + 1, current_offset + Len(data))

\* PieceManager::write_to_files
WriteToFiles ==
    /\ files' = WriteFrom(files, 0, 0).files
    /\ lastOp' = [op |-> "write_to_files", idx |-> 0, data |-> None,
                  ret |-> IF WriteFrom(files, 0, 0).ok THEN "Ok" ELSE "Err",
                  failed |-> {}]
    /\ UNCHANGED <<pieces, bitfield, piece_cache, cache_size, file_sizes, path_order>>
    /\ UNCHANGED nonFileVars

\* load_from_files: piece_size
PieceSize(piece_index) ==
    IF piece_index = NumPieces - 1
    THEN SumSizes(file_sizes) - piece_index * PieceLen
    ELSE PieceLen

\* load_from_files: the while loop that reads one piece; the bytes read
RECURSIVE ReadSpans(_, _, _, _)
ReadSpans(piece_size, got, file_index, file_offset) ==
    IF ~(Len(got) < piece_size /\ file_index < Len(file_sizes))
    THEN got
    ELSE LET file_size == file_sizes[file_index + 1]
         IN IF file_offset >= file_size
            THEN ReadSpans(piece_size, got, file_index + 1, file_offset - file_size)
            ELSE LET to_read == Min(piece_size - Len(got), file_size - file_offset)
                 IN ReadSpans(piece_size,
                              got \o SubSeq(files[file_index + 1], file_offset + 1,
                                            file_offset + to_read),
                              file_index + 1, 0)

\* load_from_files: the while loop that reads one piece never ends: the file
\* at file_index is shorter than file_offset + to_read, so read returns fewer
\* than to_read bytes, then 0 at the end of the file, and neither bytes_read
\* nor file_index advances again
RECURSIVE ReadStalls(_, _, _, _)
ReadStalls(piece_size, bytes_read, file_index, file_offset) ==
    IF ~(bytes_read < piece_size /\ file_index < Len(file_sizes))
    THEN FALSE
    ELSE LET file_size == file_sizes[file_index + 1]
         IN IF file_offset >= file_size
            THEN ReadStalls(piece_size, bytes_read, file_index + 1,
                            file_offset - file_size)
            ELSE LET to_read == Min(piece_size - bytes_read, file_size - file_offset)
                 IN IF file_offset + to_read > Len(files[file_index + 1])
                    THEN TRUE
                    ELSE ReadStalls(piece_size, bytes_read + to_read, file_index + 1, 0)

\* add_piece_data applied to a store st = [pieces, bitfield, piece_cache]: the
\* stores it can leave
AddPieceDataTo(st, i, d) ==
    LET p == PieceSetData(st.pieces[i], d)
    IN IF p.verified
       THEN {[pieces |-> [st.pieces EXCEPT ![i] = p],
              bitfield |-> [st.bitfield EXCEPT ![i] = TRUE],
              piece_cache |-> c] : c \in CacheAfterInsert(st.piece_cache, i, d)}
       ELSE {[st EXCEPT !.pieces[i] = p]}

\* load_from_files: the loop over the pieces from piece_index on; the stores
\* it can leave when it returns, or has when the read loop of a piece stalls
RECURSIVE LoadFrom(_, _, _)
LoadFrom(st, piece_index, current_offset) ==
    IF piece_index >= NumPieces
    THEN {st}
    ELSE IF ReadStalls(PieceSize(piece_index), 0, 0, current_offset)
    THEN {st}
    ELSE LET piece_size == PieceSize(piece_index)
             got == ReadSpans(piece_size, <<>>, 0, current_offset)
         IN IF Len(got) = piece_size
            THEN UNION {LoadFrom(st2, piece_index + 1, current_offset + piece_size) :
                          st2 \in AddPieceDataTo(st, piece_index, DataOfBytes(got))}
            ELSE LoadFrom(st, piece_index + 1, current_offset + piece_size)

\* load_from_files never returns: the read loop of some piece stalls
LoadStalls ==
    \E piece_index \in PieceIdx :
        ReadStalls(PieceSize(piece_index), 0, 0, piece_index * PieceLen)

\* PieceManager::load_from_files
LoadFromFiles ==
    /\ \E st \in LoadFrom([pieces |-> pieces, bitfield |-> bitfield,
                           piece_cache |-> piece_cache], 0, 0) :
          /\ pieces' = st.pieces
          /\ bitfield' = st.bitfield
          /\ piece_cache' = st.piece_cache
    /\ lastOp' = [op |-> "load_from_files", idx |-> 0, data |-> None,
                  ret |-> IF LoadStalls THEN "Hang" ELSE "Ok", failed |-> {}]
    /\ UNCHANGED <<cache_size, files, file_sizes, path_order>>
    /\ UNCHANGED nonFileVars

\* verify_all_pieces applied to a store st = [pieces, bitfield, piece_cache]:
\* the store it leaves
VerifyAllOn(st) ==
    LET failed == {i \in PieceIdx : st.bitfield[i] /\ ~PieceVerifyResult(st.pieces[i])}
    IN  [pieces |-> [i \in PieceIdx |->
                        IF i \in failed
                        THEN [st.pieces[i] EXCEPT !.data = None, !.verified = FALSE]
                        ELSE IF st.bitfield[i]
                             THEN [st.pieces[i] EXCEPT
                                      !.verified = PieceVerifyFlag(st.pieces[i])]
                             ELSE st.pieces[i]],
         bitfield |-> [i \in PieceIdx |-> st.bitfield[i] /\ i \notin failed],
         piece_cache |-> [i \in PieceIdx |->
                             IF i \in failed THEN None ELSE st.piece_cache[i]]]

\* FileManager::new in a later run of the client: a PieceManager with the
\* torrent's hashes and nothing loaded, over the files the earlier run left
FileManagerNew ==
    /\ lastOp.op # "new"
    /\ pieces' = [i \in PieceIdx |-> PieceNew(pieces[i].hash)]
    /\ bitfield' = [i \in PieceIdx |-> FALSE]
    /\ piece_cache' = [i \in PieceIdx |-> None]
    /\ lastOp' = [op |-> "new", idx |-> 0, data |-> None, ret |-> "Ok", failed |-> {}]
    /\ UNCHANGED <<cache_size, files, file_sizes, path_order>>
    /\ UNCHANGED nonFileVars

FilesNext ==
    \/ \E i \in PieceIdx, d \in Data : AddPieceData(i, d)
    \/ WriteToFiles
    \/ LoadFromFiles
    \/ VerifyAllPieces
    \/ FileManagerNew

(***************************************************************************)
(* The peer registry: peer/peer.rs, peer/manager.rs.                       *)
(***************************************************************************)
\* PeerManager::max_unchoked
MaxUnchoked == 4

\* Peer::max_requests
MaxRequests == 5

\* bound: the peer ids of the choking model are 1 .. MaxUnchoked + ExtraPeers
ExtraPeers == 1

PeerIds == 1 .. (MaxUnchoked + ExtraPeers)

\* Peer::new
PeerNew ==
    [state |-> "Disconnected",
     bitfield |-> {},
     am_choking |-> "Choked",
     peer_choking |-> "Choked",
     am_interested |-> "NotInterested",
     peer_interested |-> "NotInterested",
     download_rate |-> 0,     \* 0.0; no code of the crate assigns the rates
     upload_rate |-> 0,
     downloaded |-> 0,
     uploaded |-> 0,
     pending_requests |-> {},
     max_requests |-> MaxRequests]

\* PeerManager::peer_ids
RegisteredIds == DOMAIN peers

\* HashMap::remove on the registry
WithoutPeer(ps, id) == [q \in (DOMAIN ps) \ {id} |-> ps[q]]

RegRet(op, ret) == [op |-> op, ret |-> ret]

\* PeerManager::new
RegistryInit ==
    /\ peers = <<>>
    /\ unchoked_peers = {}
    /\ optimistic_unchoke = None
    /\ max_peers \in {MaxUnchoked + ExtraPeers - 1, MaxUnchoked + ExtraPeers}
    /\ chokeRounds = FALSE
    /\ regRet = RegRet("new", "Ok")
    /\ lastBest = <<>>
    /\ our_bitfield = {}
    /\ num_pieces = 0
    /\ lastRarest = <<>>

RegistryIdle ==
    /\ peers = <<>>
    /\ unchoked_peers = {}
    /\ optimistic_unchoke = None
    /\ max_peers = 0
    /\ chokeRounds = FALSE
    /\ regRet = RegRet("none", "Ok")
    /\ lastBest = <<>>
    /\ our_bitfield = {}
    /\ num_pieces = 0
    /\ lastRarest = <<>>

\* PeerManager::add_peer: whether the registry has room
AddPeerOk == Cardinality(RegisteredIds) < max_peers

\* PeerManager::add_peer: the value returned
AddPeerRet == RegRet("add_peer", IF AddPeerOk THEN "Ok" ELSE "Err(NotFound)")

\* PeerManager::add_peer: the registry after the call
PeersAfterAdd(id) ==
    IF AddPeerOk /\ id \notin RegisteredIds THEN peers @@ (id :> PeerNew) ELSE peers

\* PeerManager::add_peer
AddPeer(id) ==
    /\ regRet' = AddPeerRet
    /\ peers' = PeersAfterAdd(id)
    /\ UNCHANGED <<unchoked_peers, optimistic_unchoke, max_peers, chokeRounds, lastBest,
                 our_bitfield, num_pieces, lastRarest>>
    /\ UNCHANGED nonRegistryVars

\* remove_peer without `self.unchoked_peers.remove(peer_id)`
RemovePeerKeepsUnchoked(id) ==
    /\ optimistic_unchoke' =
          IF optimistic_unchoke = Some(id) THEN None ELSE optimistic_unchoke
    /\ peers' = WithoutPeer(peers, id)
    /\ regRet' = RegRet("remove_peer",
                        IF id \in RegisteredIds THEN "Some" ELSE "None")
    /\ UNCHANGED <<unchoked_peers, max_peers, chokeRounds, lastBest,
                 our_bitfield, num_pieces, lastRarest>>
    /\ UNCHANGED nonRegistryVars

\* PeerManager::remove_peer
RemovePeer(id) ==
    /\ unchoked_peers' = unchoked_peers \ {id}
    /\ optimistic_unchoke' =
          IF optimistic_unchoke = Some(id) THEN None ELSE optimistic_unchoke
    /\ peers' = WithoutPeer(peers, id)
    /\ regRet' = RegRet("remove_peer",
                        IF id \in RegisteredIds THEN "Some" ELSE "None")
    /\ UNCHANGED <<max_peers, chokeRounds, lastBest,
                 our_bitfield, num_pieces, lastRarest>>
    /\ UNCHANGED nonRegistryVars

\* a caller records the remote's interest: get_peer_mut(id).peer_interested = v
SetPeerInterested(id, v) ==
    /\ id \in RegisteredIds
    /\ peers[id].peer_interested # v
    /\ peers' = [peers EXCEPT ![id].peer_interested = v]
    /\ regRet' = RegRet("get_peer_mut", "Some")
    /\ UNCHANGED <<unchoked_peers, optimistic_unchoke, max_peers, chokeRounds, lastBest,
                 our_bitfield, num_pieces, lastRarest>>
    /\ UNCHANGED nonRegistryVars

\* update_choking: the peers with peer_interested = Interested
InterestedPeers == {q \in RegisteredIds : peers[q].peer_interested = "Interested"}

\* update_choking: the sets interested_peers.iter().take(n) can be.  The Vec is
\* collected in the HashMap's iteration order and stably sorted by descending
\* upload_rate, so its first n entries are any n interested peers none of
\* which has a lower rate than an interested peer left out.
TopUploaders(n) ==
    {T \in SUBSET InterestedPeers :
        /\ Cardinality(T) = Min(n, Cardinality(InterestedPeers))
        /\ \A a \in T, b \in InterestedPeers \ T :
               peers[a].upload_rate >= peers[b].upload_rate}

\* update_choking: the peers choked_interested.get(0) can be, the first of the
\* sorted interested peers outside new_unchoked
FirstChokedInterested(T) ==
    {a \in InterestedPeers \ T :
        \A b \in InterestedPeers \ T : peers[a].upload_rate >= peers[b].upload_rate}

\* update_choking with all of max_unchoked slots given to the top uploaders
RegularSlotsAll == MaxUnchoked

\* update_choking: max_unchoked.saturating_sub(1)
RegularSlots == IF MaxUnchoked >= 1 THEN MaxUnchoked - 1 ELSE 0

\* update_choking: optimistic_unchoke after the optimistic step, given the
\* regular unchokes T and whether the slot is drawn again (rand < 0.1)
OptimisticAfter(T, redraw) ==
    IF (optimistic_unchoke = None \/ redraw) /\ FirstChokedInterested(T) # {}
    THEN {Some(a) : a \in FirstChokedInterested(T)}
    ELSE {optimistic_unchoke}

\* update_choking: new_unchoked
NewUnchoked(T, opt) == T \cup (IF opt # None THEN {Unwrap(opt)} ELSE {})

\* PeerManager::update_choking once choke_interval has elapsed
UpdateChoking ==
    /\ \E T \in TopUploaders(RegularSlots), redraw \in BOOLEAN :
         \E opt \in OptimisticAfter(T, redraw) :
            /\ optimistic_unchoke' = opt
            /\ unchoked_peers' = NewUnchoked(T, opt)
            /\ peers' = [q \in RegisteredIds |->
                           [peers[q] EXCEPT !.am_choking =
                               IF q \in NewUnchoked(T, opt)
                               THEN "Unchoked" ELSE "Choked"]]
    /\ chokeRounds' = TRUE
    /\ regRet' = RegRet("update_choking", "round")
    /\ UNCHANGED <<max_peers, lastBest, our_bitfield, num_pieces, lastRarest>>
    /\ UNCHANGED nonRegistryVars

\* PeerManager::update_choking before choke_interval has elapsed: early return
UpdateChokingEarly ==
    /\ regRet' = RegRet("update_choking", "early")
    /\ UNCHANGED <<peers, unchoked_peers, optimistic_unchoke, max_peers, chokeRounds,
                   lastBest, our_bitfield, num_pieces, lastRarest>>
    /\ UNCHANGED nonRegistryVars

\* PeerManager::cleanup_stale_peers: remove_peer for every peer whose
\* last_seen lies further back than connection_timeout; which peers those
\* are depends on the clock
CleanupStalePeers(stale) ==
    /\ stale \subseteq RegisteredIds
    /\ unchoked_peers' = unchoked_peers \ stale
    /\ optimistic_unchoke' =
          IF optimistic_unchoke # None /\ Unwrap(optimistic_unchoke) \in stale
          THEN None ELSE optimistic_unchoke
    /\ peers' = [q \in RegisteredIds \ stale |-> peers[q]]
    /\ regRet' = RegRet("cleanup_stale_peers", "Ok")
    /\ UNCHANGED <<max_peers, chokeRounds, lastBest,
                 our_bitfield, num_pieces, lastRarest>>
    /\ UNCHANGED nonRegistryVars

ChokeNext ==
    \/ \E id \in PeerIds : AddPeer(id)
    \/ \E id \in PeerIds : RemovePeer(id)
    \/ \E stale \in SUBSET PeerIds : CleanupStalePeers(stale)
    \/ \E id \in PeerIds, v \in {"Interested", "NotInterested"} : SetPeerInterested(id, v)
    \/ UpdateChoking
    \/ UpdateChokingEarly

(***************************************************************************)
(* Requests to peers: Peer::add_request / remove_request / can_request and *)
(* PeerManager::best_peers_for_piece.                                      *)
(***************************************************************************)
\* bound: the registry of the request model holds peers 1 .. NumSchedPeers
NumSchedPeers == 1

\* bound: the piece indices of the request model are 0 .. MaxRequests + ExtraPieces - 1
ExtraPieces == 1

SchedPeerIds == 1 .. NumSchedPeers
SchedPieces == 0 .. (MaxRequests + ExtraPieces - 1)

\* PeerManager::new for the request model
SchedInit ==
    /\ peers = <<>>
    /\ unchoked_peers = {}
    /\ optimistic_unchoke = None
    /\ max_peers = NumSchedPeers
    /\ chokeRounds = FALSE
    /\ regRet = RegRet("new", "Ok")
    /\ lastBest = <<>>
    /\ our_bitfield = {}
    /\ num_pieces = MaxRequests + ExtraPieces
    /\ lastRarest = <<>>

\* Peer::can_request
CanRequest(p) ==
    /\ p.state = "Ready"
    /\ p.peer_choking = "Unchoked"
    /\ p.am_interested = "Interested"
    /\ Cardinality(p.pending_requests) < p.max_requests

\* Peer::peer_has_piece
PeerHasPiece(p, i) == i \in p.bitfield

\* Peer::has_request
HasRequest(p, i) == i \in p.pending_requests

\* Peer::reputation_score, in thousandths
ReputationScore(p) ==
    IF p.downloaded = 0 THEN 1000
    ELSE Min((p.uploaded * 1000) \div p.downloaded, 2000)

\* best_peers_for_piece: the sort key, in thousandths
Score(p) == ReputationScore(p) + p.download_rate

\* best_peers_for_piece: the peers that pass the filter
Candidates(i) ==
    {q \in RegisteredIds :
        CanRequest(peers[q]) /\ PeerHasPiece(peers[q], i) /\ ~HasRequest(peers[q], i)}

\* the orders of a set of peer ids by descending score; peers of equal score
\* keep the HashMap's iteration order, which is arbitrary
DescendingOrders(S) ==
    {o \in [1 .. Cardinality(S) -> S] :
        /\ \A a, b \in 1 .. Cardinality(S) : a # b => o[a] # o[b]
        /\ \A a, b \in 1 .. Cardinality(S) :
               a < b => Score(peers[o[a]]) >= Score(peers[o[b]])}

\* PeerManager::best_peers_for_piece
BestPeersForPiece(i) ==
    /\ lastBest' \in DescendingOrders(Candidates(i))
    /\ regRet' = RegRet("best_peers_for_piece", "Ok")
    /\ UNCHANGED <<peers, unchoked_peers, optimistic_unchoke, max_peers, chokeRounds,
                   our_bitfield, num_pieces, lastRarest>>
    /\ UNCHANGED nonRegistryVars

\* a caller's write through get_peer_mut, leaving the rest of the registry alone
PeerWrite(id, p) ==
    /\ id \in RegisteredIds
    /\ peers[id] # p
    /\ peers' = [peers EXCEPT ![id] = p]
    /\ UNCHANGED <<unchoked_peers, optimistic_unchoke, max_peers, chokeRounds, lastBest,
                 our_bitfield, num_pieces, lastRarest>>
    /\ UNCHANGED nonRegistryVars

\* get_peer_mut(id).state = st
SetPeerState(id, st) ==
    /\ PeerWrite(id, [peers[id] EXCEPT !.state = st])
    /\ regRet' = RegRet("get_peer_mut", "Some")

\* get_peer_mut(id).peer_choking = v
SetPeerChoking(id, v) ==
    /\ PeerWrite(id, [peers[id] EXCEPT !.peer_choking = v])
    /\ regRet' = RegRet("get_peer_mut", "Some")

\* get_peer_mut(id).am_interested = v
SetAmInterested(id, v) ==
    /\ PeerWrite(id, [peers[id] EXCEPT !.am_interested = v])
    /\ regRet' = RegRet("get_peer_mut", "Some")

\* Peer::set_bitfield
SetBitfield(id, bf) ==
    /\ PeerWrite(id, [peers[id] EXCEPT !.bitfield = bf])
    /\ regRet' = RegRet("set_bitfield", "Ok")

\* Peer::add_request: the peer after the call
AddRequestTo(p, i) == [p EXCEPT !.pending_requests = @ \cup {i}]

\* Peer::remove_request: the peer after the call
RemoveRequestFrom(p, i) == [p EXCEPT !.pending_requests = @ \ {i}]

\* get_peer_mut(id).add_request(i)
AddRequest(id, i) ==
    /\ PeerWrite(id, AddRequestTo(peers[id], i))
    /\ regRet' = RegRet("add_request", "Ok")

\* get_peer_mut(id).remove_request(i)
RemoveRequest(id, i) ==
    /\ PeerWrite(id, RemoveRequestFrom(peers[id], i))
    /\ regRet' = RegRet("remove_request", "Ok")

SchedNext ==
    \/ \E id \in SchedPeerIds : AddPeer(id)
    \/ \E id \in SchedPeerIds : RemovePeer(id)
    \/ \E id \in SchedPeerIds, st \in {"Disconnected", "Ready"} : SetPeerState(id, st)
    \/ \E id \in SchedPeerIds, v \in {"Choked", "Unchoked"} : SetPeerChoking(id, v)
    \/ \E id \in SchedPeerIds, v \in {"NotInterested", "Interested"} : SetAmInterested(id, v)
    \/ \E id \in SchedPeerIds, bf \in {{}, {0}, SchedPieces} : SetBitfield(id, bf)
    \/ \E id \in SchedPeerIds, i \in SchedPieces : AddRequest(id, i)
    \/ \E id \in SchedPeerIds, i \in SchedPieces : RemoveRequest(id, i)
    \/ \E i \in SchedPieces : BestPeersForPiece(i)

(***************************************************************************)
(* Piece availability: PeerManager::completed_piece, rarest_pieces and     *)
(* missing_pieces_available.                                               *)
(***************************************************************************)
\* bound: the registry of the availability model holds peers 1 .. NumRarityPeers
NumRarityPeers == 2

\* bound: the torrent of the availability model has pieces 0 .. NumRarityPieces - 1
NumRarityPieces == 2

RarityPeerIds == 1 .. NumRarityPeers
RarityPieces == 0 .. (NumRarityPieces - 1)

\* PeerManager::new for the availability model
RarityInit ==
    /\ peers = <<>>
    /\ unchoked_peers = {}
    /\ optimistic_unchoke = None
    /\ max_peers = NumRarityPeers
    /\ chokeRounds = FALSE
    /\ regRet = RegRet("new", "Ok")
    /\ lastBest = <<>>
    /\ our_bitfield = {}
    /\ num_pieces = NumRarityPieces
    /\ lastRarest = <<>>

\* Bitfield::is_complete on our_bitfield
IsComplete == Cardinality(our_bitfield) = num_pieces

\* Bitfield::set_piece on our_bitfield: an index outside the bitfield is ignored
OurBitfieldWith(i) == IF i < num_pieces THEN our_bitfield \cup {i} ELSE our_bitfield

\* Peer::interesting_pieces
InterestingPieces(p, ours) == {i \in p.bitfield : i \notin ours}

\* Peer::update_interest: the peer after the call
UpdateInterest(p, ours) ==
    [p EXCEPT !.am_interested =
        IF InterestingPieces(p, ours) = {} THEN "NotInterested" ELSE "Interested"]

\* PeerManager::completed_piece
CompletedPiece(i) ==
    /\ our_bitfield' = OurBitfieldWith(i)
    /\ peers' = [q \in RegisteredIds |-> UpdateInterest(peers[q], OurBitfieldWith(i))]
    /\ regRet' = RegRet("completed_piece", "Ok")
    /\ UNCHANGED <<unchoked_peers, optimistic_unchoke, max_peers, chokeRounds, lastBest,
                   num_pieces, lastRarest>>
    /\ UNCHANGED nonRegistryVars

\* rarest_pieces: piece_counts[i], the number of Ready peers whose bitfield has i
PieceCount(i) ==
    Cardinality({q \in RegisteredIds :
                    peers[q].state = "Ready" /\ i \in peers[q].bitfield})

\* rarest_pieces: the keys of piece_counts
CountedPieces ==
    UNION {peers[q].bitfield : q \in {r \in RegisteredIds : peers[r].state = "Ready"}}

\* rarest_pieces: the orders the result can have.  piece_counts is collected
\* in the HashMap's iteration order, which is arbitrary and differs from one
\* map to the next, and sort_by_key is stable: entries of equal count keep
\* that order.
RarestOrders ==
    {o \in [1 .. Cardinality(CountedPieces) -> CountedPieces] :
        /\ \A a, b \in 1 .. Cardinality(CountedPieces) : a # b => o[a] # o[b]
        /\ \A a, b \in 1 .. Cardinality(CountedPieces) :
               a < b => PieceCount(o[a]) <= PieceCount(o[b])}

\* PeerManager::rarest_pieces
RarestPieces ==
    /\ \E o \in RarestOrders :
          lastRarest' = [k \in 1 .. Cardinality(CountedPieces) |->
                            [piece |-> o[k], count |-> PieceCount(o[k])]]
    /\ regRet' = RegRet("rarest_pieces", "Ok")
    /\ UNCHANGED <<peers, unchoked_peers, optimistic_unchoke, max_peers, chokeRounds,
                   lastBest, our_bitfield, num_pieces>>
    /\ UNCHANGED nonRegistryVars

\* PeerManager::missing_pieces_available
MissingPiecesAvailable ==
    {i \in 0 .. (num_pieces - 1) :
        i \notin our_bitfield /\ \E q \in RegisteredIds : PeerHasPiece(peers[q], i)}

\* the peer counts of the registry (peer/manager.rs 98-111)
\* Peer::is_seeder: Bitfield::is_complete, count_pieces() == num_pieces
IsSeeder(ps, id) == Cardinality(ps[id].bitfield) = num_pieces

\* PeerManager::connected_peer_count
ConnectedPeerCount(ps) == Cardinality({id \in DOMAIN ps : ps[id].state = "Ready"})

\* PeerManager::seeder_count
SeederCount(ps) == Cardinality({id \in DOMAIN ps : IsSeeder(ps, id)})

\* PeerManager::leecher_count: the values the call can produce.  The
\* subtraction is on usize: when seeder_count() exceeds
\* connected_peer_count() it panics in a build with overflow checks and
\* wraps around in a build without, to 2^64 - n for a difference of -n
LeecherCounts(ps) ==
    IF ConnectedPeerCount(ps) >= SeederCount(ps)
    THEN {[ret |-> "Ok", n |-> ConnectedPeerCount(ps) - SeederCount(ps)]}
    ELSE {[ret |-> "panic", n |-> 0],
          [ret |-> "wrapped", n |-> SeederCount(ps) - ConnectedPeerCount(ps)]}

\* PeerManager::leecher_count
LeecherCount ==
    /\ \E r \in LeecherCounts(peers) :
          regRet' = [op |-> "leecher_count", ret |-> r.ret, n |-> r.n]
    /\ UNCHANGED <<peers, unchoked_peers, optimistic_unchoke, max_peers, chokeRounds,
                   lastBest, our_bitfield, num_pieces, lastRarest>>
    /\ UNCHANGED nonRegistryVars

RarityNext ==
    \/ \E id \in RarityPeerIds : AddPeer(id)
    \/ \E id \in RarityPeerIds : RemovePeer(id)
    \/ \E id \in RarityPeerIds, st \in {"Disconnected", "Ready"} : SetPeerState(id, st)
    \/ \E id \in RarityPeerIds, bf \in SUBSET RarityPieces : SetBitfield(id, bf)
    \/ \E i \in 0 .. NumRarityPieces : CompletedPiece(i)
    \/ RarestPieces
    \/ LeecherCount

(***************************************************************************)
(* One peer session: NetworkManager::handle_incoming_connection,           *)
(* handle_peer_connection, handle_message, handle_piece_request.           *)
(***************************************************************************)
\* bound on the number of messages a session writes
MaxSent == 2

\* bound on the block length a Request of the remote asks for
MaxReqLen == 1

\* bound on the requests a caller registers as outstanding to the remote
MaxOutstanding == 2

\* NetworkManager::new: PeerManager::new(100, 50)
SessionMaxPeers == 50
SessionNumPieces == 100

\* the id of the session's remote peer
SessPeer == 1

\* bound: the piece length of the session's torrent, in bytes
SessPieceLen == 1

\* MessageParser::parse_request: whether it returns Ok
ParseRequestOk(m) == m.message_type = "Request" /\ Len(m.payload) = 12

\* MessageParser::parse_request: piece_index, offset, length
ParseRequest(m) ==
    [piece_index |-> GetU32(SubSeq(m.payload, 1, 4)),
     offset |-> GetU32(SubSeq(m.payload, 5, 8)),
     length |-> GetU32(SubSeq(m.payload, 9, 12))]

\* handle_piece_request: the Piece message built, with vec![0u8; length] as data
PieceReply(piece_index, offset, length) ==
    PieceMsg(piece_index, offset, Repeat(0, length))

\* the messages receive_message returns in the session model
SessionInbound ==
    {KeepAliveMsg, ChokeMsg, UnchokeMsg, InterestedMsg, NotInterestedMsg,
     HaveMsg(0), BitfieldMsg(<<255>>), PieceMsg(0, 0, <<7>>), CancelMsg(0, 0, 1),
     PortMsg(6881), MessageNew("Request", <<0, 0>>)}
    \cup {RequestMsg(i, 0, l) : i \in {0, 258}, l \in 0 .. MaxReqLen}
    \cup {RequestMsg(0, SessPieceLen, MaxReqLen)}

\* NetworkManager::new, and a connection whose handshake has completed
SessionInit ==
    /\ peers = <<>>
    /\ unchoked_peers = {}
    /\ optimistic_unchoke = None
    /\ max_peers = SessionMaxPeers
    /\ chokeRounds = FALSE
    /\ regRet = RegRet("new", "Ok")
    /\ lastBest = <<>>
    /\ our_bitfield = {}
    /\ num_pieces = SessionNumPieces
    /\ lastRarest = <<>>
    /\ sessPc = "accepted"
    /\ sessOut = <<>>
    /\ sessHandled = None

SessionIdle ==
    /\ sessPc = "idle"
    /\ sessOut = <<>>
    /\ sessHandled = None

\* ProtocolHandler::send_message: the bytes written, recorded with the
\* registry's flow bits of the peer at that time
Sent(m) ==
    [msg |-> m,
     bytes |-> Serialize(m),
     am_choking |-> peers[SessPeer].am_choking,
     peer_interested |-> peers[SessPeer].peer_interested]

\* handle_incoming_connection: peer_manager.add_peer, then the message loop
SessAddPeer ==
    /\ sessPc = "accepted"
    /\ regRet' = AddPeerRet
    /\ peers' = PeersAfterAdd(SessPeer)
    /\ sessPc' = IF AddPeerOk THEN "loop" ELSE "closed"
    /\ UNCHANGED <<unchoked_peers, optimistic_unchoke, max_peers, chokeRounds, lastBest,
                 our_bitfield, num_pieces, lastRarest>>
    /\ UNCHANGED <<sessOut, sessHandled>>
    /\ UNCHANGED nonSessionVars

\* handle_message: what is written in answer to a message
Replies(m) ==
    IF m.message_type = "Request" /\ ParseRequestOk(m)
    THEN <<PieceReply(ParseRequest(m).piece_index, ParseRequest(m).offset,
                      ParseRequest(m).length)>>
    ELSE <<>>

\* handle_message(m) has returned: the message, and what the registry holds
\* for the peer at that time
Handled(m) ==
    [message_type |-> m.message_type,
     peer_choking |-> peers[SessPeer].peer_choking,
     pending_requests |-> peers[SessPeer].pending_requests]

\* handle_peer_connection: receive_message returned a message, handle_message
\* handles it; a failed write ends the loop
SessHandleMessage(m, writeOk) ==
    /\ sessPc = "loop"
    /\ Len(sessOut) < MaxSent
    /\ IF Replies(m) = <<>>
       THEN UNCHANGED <<sessPc, sessOut>>
       ELSE IF writeOk
            THEN /\ sessOut' = Append(sessOut, Sent(Replies(m)[1]))
                 /\ UNCHANGED sessPc
            ELSE /\ sessPc' = "closed"
                 /\ UNCHANGED sessOut
    /\ sessHandled' = Some(Handled(m))
    /\ UNCHANGED registryVars
    /\ UNCHANGED nonSessionVars

\* handle_peer_connection: no message within 30 s, a Keep-Alive is written
SessKeepAlive(writeOk) ==
    /\ sessPc = "loop"
    /\ Len(sessOut) < MaxSent
    /\ IF writeOk
       THEN /\ sessOut' = Append(sessOut, Sent(KeepAliveMsg))
            /\ UNCHANGED sessPc
       ELSE /\ sessPc' = "closed"
            /\ UNCHANGED sessOut
    /\ UNCHANGED sessHandled
    /\ UNCHANGED registryVars
    /\ UNCHANGED nonSessionVars

\* handle_peer_connection: receive_message returned an error, the loop ends
SessRecvError ==
    /\ sessPc = "loop"
    /\ sessPc' = "closed"
    /\ UNCHANGED <<sessOut, sessHandled>>
    /\ UNCHANGED registryVars
    /\ UNCHANGED nonSessionVars

SessionNext ==
    \/ SessAddPeer
    \/ \E m \in SessionInbound, writeOk \in BOOLEAN : SessHandleMessage(m, writeOk)
    \/ \E writeOk \in BOOLEAN : SessKeepAlive(writeOk)
    \/ SessRecvError
    \/ \E v \in {"Interested", "NotInterested"} : SetPeerInterested(SessPeer, v)
    \/ \E i \in 0 .. (MaxOutstanding - 1) : AddRequest(SessPeer, i)
    \/ UpdateChoking

(***************************************************************************)
(* core/types.rs: Bitfield.  bits is a sequence of booleans, piece i at    *)
(* position i + 1; a byte is a number in 0 .. 255.                         *)
(***************************************************************************)
MaxBfPieces == 9
BfRawLen == 2

BfSizes == 0 .. MaxBfPieces

BfRawBytes == {0, 1, 32, 128, 255}

BfRaws == SeqsUpTo(BfRawBytes, BfRawLen)

BitfieldNew(n) == [k \in 1 .. n |-> FALSE]

\* the bit from_bytes pushes for the i-th bit of a byte: (byte >> (7 - i)) & 1 == 1
ByteBit(byte, i) == (byte \div 2^(7 - i)) % 2 = 1

\* the inner loop of from_bytes over one byte, from its i-th bit on
RECURSIVE PushByteBits(_, _, _, _)
PushByteBits(bits, byte, i, n) ==
    IF i >= 8 \/ Len(bits) >= n THEN bits
    ELSE PushByteBits(Append(bits, ByteBit(byte, i)), byte, i + 1, n)

\* the outer loop of from_bytes over the bytes from position k on
RECURSIVE PushBytes(_, _, _, _)
PushBytes(bits, bytes, k, n) ==
    IF k > Len(bytes) THEN bits
    ELSE LET pushed == PushByteBits(bits, bytes[k], 0, n)
         IN  IF Len(pushed) >= n THEN pushed
             ELSE PushBytes(pushed, bytes, k + 1, n)

\* bits.resize(num_pieces, false)
Resize(bits, n) == [k \in 1 .. n |-> IF k <= Len(bits) THEN bits[k] ELSE FALSE]

FromBytes(bytes, n) == Resize(PushBytes(<<>>, bytes, 1, n), n)

SetMaskLsb(i) == 2^(i % 8)
\* the mask to_bytes ors into current_byte for piece i: 1 << (7 - (i % 8))
SetMask(i) == 2^(7 - (i % 8))

\* the loop of to_bytes from piece i on
RECURSIVE ToBytesFrom(_, _, _, _)
ToBytesFrom(bits, i, current_byte, bytes) ==
    IF i >= Len(bits) THEN bytes
    ELSE LET byte == IF bits[i + 1] THEN current_byte + SetMask(i)
                     ELSE current_byte
         IN  IF (i + 1) % 8 = 0 \/ i = Len(bits) - 1
             THEN ToBytesFrom(bits, i + 1, 0, Append(bytes, byte))
             ELSE ToBytesFrom(bits, i + 1, byte, bytes)

ToBytes(bits) == ToBytesFrom(bits, 0, 0, <<>>)

BitsWith(bits, i, v) == IF i + 1 \in DOMAIN bits THEN [bits EXCEPT ![i + 1] = v] ELSE bits

BfOp(op, n, ret) == [op |-> op, n |-> n, ret |-> ret]

BitfieldInit ==
    /\ bf_bits \in {BitfieldNew(n) : n \in BfSizes}
    /\ bf_bytes = <<>>
    /\ bf_op = BfOp("new", Len(bf_bits), "Ok")

BfSetPiece(i) ==
    /\ bf_bits' = BitsWith(bf_bits, i, TRUE)
    /\ bf_op' = BfOp("set_piece", Len(bf_bits), "Ok")
    /\ bf_bytes' = <<>>
    /\ UNCHANGED nonBitfieldVars

BfUnsetPiece(i) ==
    /\ bf_bits' = BitsWith(bf_bits, i, FALSE)
    /\ bf_op' = BfOp("unset_piece", Len(bf_bits), "Ok")
    /\ bf_bytes' = <<>>
    /\ UNCHANGED nonBitfieldVars

BfToBytes ==
    /\ bf_bytes' = ToBytes(bf_bits)
    /\ bf_op' = BfOp("to_bytes", Len(bf_bits), "Ok")
    /\ UNCHANGED bf_bits
    /\ UNCHANGED nonBitfieldVars

\* from_bytes returns Self: no call of it returns an error
BfFromBytes(raw, n) ==
    /\ bf_bits' = FromBytes(raw, n)
    /\ bf_bytes' = raw
    /\ bf_op' = BfOp("from_bytes", n, "Ok")
    /\ UNCHANGED nonBitfieldVars

BitfieldNext ==
    \/ \E i \in BfSizes : BfSetPiece(i)
    \/ \E i \in BfSizes : BfUnsetPiece(i)
    \/ BfToBytes
    \/ \E raw \in BfRaws, n \in BfSizes : BfFromBytes(raw, n)

BitfieldIdle ==
    /\ bf_bits = <<>>
    /\ bf_bytes = <<>>
    /\ bf_op = BfOp("none", 0, "Ok")

(***************************************************************************)
(* Requests issued through best_peers_for_piece: a piece is requested from *)
(* the first peer best_peers_for_piece returns, by add_request.            *)
(***************************************************************************)
NumDispatchPeers == 2
NumDispatchPieces == 2

DispatchPeerIds == 1 .. NumDispatchPeers
DispatchPieces == 0 .. (NumDispatchPieces - 1)

\* PeerManager::new for the dispatch model
DispatchInit ==
    /\ peers = <<>>
    /\ unchoked_peers = {}
    /\ optimistic_unchoke = None
    /\ max_peers = NumDispatchPeers
    /\ chokeRounds = FALSE
    /\ regRet = RegRet("new", "Ok")
    /\ lastBest = <<>>
    /\ our_bitfield = {}
    /\ num_pieces = NumDispatchPieces
    /\ lastRarest = <<>>

\* best_peers_for_piece(i), then add_request(i) on the first peer returned
Dispatch(i) ==
    /\ Candidates(i) # {}
    /\ \E o \in DescendingOrders(Candidates(i)) :
           /\ lastBest' = o
           /\ peers' = [peers EXCEPT ![o[1]] = AddRequestTo(@, i)]
    /\ regRet' = RegRet("add_request", "Ok")
    /\ UNCHANGED <<unchoked_peers, optimistic_unchoke, max_peers, chokeRounds,
                   our_bitfield, num_pieces, lastRarest>>
    /\ UNCHANGED nonRegistryVars

DispatchNext ==
    \/ \E id \in DispatchPeerIds : AddPeer(id)
    \/ \E id \in DispatchPeerIds : SetPeerState(id, "Ready")
    \/ \E id \in DispatchPeerIds, v \in {"Choked", "Unchoked"} : SetPeerChoking(id, v)
    \/ \E id \in DispatchPeerIds : SetAmInterested(id, "Interested")
    \/ \E id \in DispatchPeerIds, bf \in {{0}, DispatchPieces} : SetBitfield(id, bf)
    \/ \E id \in DispatchPeerIds, i \in DispatchPieces : RemoveRequest(id, i)
    \/ \E i \in DispatchPieces : Dispatch(i)

(***************************************************************************)
(* protocol/messages.rs: MessageValidator::validate_request.  A u32 is a   *)
(* pair <<hi, lo>> of 16-bit halves, so that values up to 2^32 - 1 and the *)
(* carry out of a u32 addition are represented exactly.                    *)
(***************************************************************************)
\* 2^16: a u32 is two halves of 16 bits
Half == 2^16

\* the largest block length validate_request accepts
MaxBlockLength == 16384

U32Of(n) == <<n \div Half, n % Half>>

U32Max == <<Half - 1, Half - 1>>

\* the four big-endian bytes of a u32
U32Bytes(x) == <<x[1] \div 256, x[1] % 256, x[2] \div 256, x[2] % 256>>

\* buffer.get_u32() on four bytes
U32FromBytes(b) == <<b[1] * 256 + b[2], b[3] * 256 + b[4]>>

\* a + b on u32: the wrapped sum, and whether the addition overflows
AddU32(a, b) ==
    LET lo == a[2] + b[2]
        hi == a[1] + b[1] + (lo \div Half)
    IN  [sum |-> <<hi % Half, lo % Half>>, overflow |-> hi >= Half]

LeqU32(a, b) == a[1] < b[1] \/ (a[1] = b[1] /\ a[2] <= b[2])

\* MessageParser::parse_request succeeds
ParseRequestU32Ok(m) == m.message_type = "Request" /\ Len(m.payload) = 12

\* MessageParser::parse_request: offset and length
ParseRequestU32(m) ==
    [offset |-> U32FromBytes(SubSeq(m.payload, 5, 8)),
     length |-> U32FromBytes(SubSeq(m.payload, 9, 12))]

BoolStr(b) == IF b THEN "true" ELSE "false"

\* validate_request: the outcomes.  offset + length is evaluated first, on
\* u32: when it overflows, a build with overflow checks panics and a build
\* without them goes on with the wrapped sum
ValidateRequest(m, max_piece_size) ==
    IF m.message_type # "Request" \/ ~ParseRequestU32Ok(m)
    THEN {"false"}
    ELSE LET r == ParseRequestU32(m)
             s == AddU32(r.offset, r.length)
             wrapped == BoolStr(/\ LeqU32(s.sum, max_piece_size)
                                /\ r.length # U32Of(0)
                                /\ LeqU32(r.length, U32Of(MaxBlockLength)))
         IN  IF s.overflow THEN {"panic", wrapped} ELSE {wrapped}

\* the offsets, lengths and piece sizes tried
ValidateOffsets == {U32Of(0), U32Of(1), U32Of(MaxBlockLength), U32Of(49152), U32Of(65535),
                    <<Half - 1, Half - MaxBlockLength>>, U32Max}
ValidateLengths == {U32Of(0), U32Of(1), U32Of(MaxBlockLength), U32Of(MaxBlockLength + 1),
                    U32Max}
ValidateSizes == {U32Of(0), U32Of(MaxBlockLength), U32Of(65536), U32Max}

ValidateMessages ==
    {MessageNew("Request", PutU32(1) \o U32Bytes(off) \o U32Bytes(len)) :
        off \in ValidateOffsets, len \in ValidateLengths}
    \cup {MessageNew("Request", <<0, 0>>),
          MessageNew("Cancel", PutU32(1) \o U32Bytes(U32Of(0)) \o U32Bytes(U32Of(1))),
          KeepAliveMsg}

ValidateInit ==
    /\ vr_msg \in ValidateMessages
    /\ vr_max \in ValidateSizes
    /\ vr_ret = "none"

\* message.validate_request(max_piece_size)
ValidateRequestStep ==
    /\ vr_ret = "none"
    /\ vr_ret' \in ValidateRequest(vr_msg, vr_max)
    /\ UNCHANGED <<vr_msg, vr_max>>
    /\ UNCHANGED nonValidateVars

ValidateNext == ValidateRequestStep

ValidateIdle ==
    /\ vr_msg = KeepAliveMsg
    /\ vr_max = <<0, 0>>
    /\ vr_ret = "none"

(***************************************************************************)
(* file/manager.rs: FileManager over the piece manager.  initialize keeps  *)
(* the paths in a HashMap keyed by the file's path; scan_existing_files    *)
(* and flush_to_disk hand file_paths.values() to the piece manager, in the *)
(* HashMap's iteration order, next to the lengths in declared order.       *)
(* files[k] is the file at the k-th path of file_paths.values().           *)
(***************************************************************************)

\* the iteration orders of a HashMap with n entries: any order
PathOrders(n) == Permutations(1 .. n)

\* FileManager::new, initialize and allocate_files: every declared file is
\* created with its declared length
LayoutInit ==
    /\ pieces \in [PieceIdx -> {PieceNew(h) : h \in Digests}]
    /\ bitfield = [i \in PieceIdx |-> FALSE]
    /\ piece_cache = [i \in PieceIdx |-> None]
    /\ cache_size = MaxCache
    /\ lastOp = [op |-> "new", idx |-> 0, data |-> None, ret |-> "Ok", failed |-> {}]
    /\ file_sizes \in FileLayouts
    /\ path_order \in PathOrders(Len(file_sizes))
    /\ files = [k \in 1 .. Len(file_sizes) |->
                  [b \in 1 .. file_sizes[path_order[k]] |-> 0]]

\* the client still runs: no call is stuck in a loop
Running == lastOp.ret # "Hang"

\* piece_manager_mut().add_piece_data
LayoutAddPieceData(i, d) ==
    /\ Running
    /\ AddPieceData(i, d)

\* FileManager::flush_to_disk
FlushToDisk ==
    /\ Running
    /\ files' = WriteFrom(files, 0, 0).files
    /\ lastOp' = [op |-> "flush_to_disk", idx |-> 0, data |-> None,
                  ret |-> IF WriteFrom(files, 0, 0).ok THEN "Ok" ELSE "Err",
                  failed |-> {}]
    /\ UNCHANGED <<pieces, bitfield, piece_cache, cache_size, file_sizes, path_order>>
    /\ UNCHANGED nonFileVars

\* FileManager::scan_existing_files; every path exists
ScanExistingFiles ==
    /\ Running
    /\ \E st \in LoadFrom([pieces |-> pieces, bitfield |-> bitfield,
                           piece_cache |-> piece_cache], 0, 0) :
          /\ pieces' = st.pieces
          /\ bitfield' = st.bitfield
          /\ piece_cache' = st.piece_cache
    /\ lastOp' = [op |-> "scan_existing_files", idx |-> 0, data |-> None,
                  ret |-> IF LoadStalls THEN "Hang" ELSE "Ok", failed |-> {}]
    /\ UNCHANGED <<cache_size, files, file_sizes, path_order>>
    /\ UNCHANGED nonFileVars

LayoutNext ==
    \/ \E i \in PieceIdx, d \in Data : LayoutAddPieceData(i, d)
    \/ FlushToDisk
    \/ ScanExistingFiles

(***************************************************************************)
(* network/mod.rs: NetworkManager::handle_incoming_connection up to the    *)
(* message loop.  connLog lists the handshakes written to and read from    *)
(* the socket, in order.                                                   *)
(***************************************************************************)

\* bound: max_peers of the registry is 0 .. MaxConnPeers
MaxConnPeers == 1

\* NetworkManager::perform_handshake: let info_hash = [0u8; 20]
OurInfoHash == Repeat(0, 20)

\* NetworkManager::perform_handshake: let peer_id = [0u8; 20]
OurPeerId == Repeat(0, 20)

\* the peer ids a remote announces; the first is the one this client uses on
\* inbound connections
RemotePeerIds == {Repeat(0, 20), Repeat(1, 20), Repeat(2, 20)}

\* what the remote writes when the connection opens: a handshake for some
\* torrent, a handshake cut short, or 68 bytes that are no handshake
RemoteStreams ==
    {HandshakeSerialize(HandshakeNew(ih, pid)) :
        ih \in Hash20Samples, pid \in RemotePeerIds}
    \cup {SubSeq(HandshakeSerialize(HandshakeNew(OurInfoHash, Repeat(1, 20))), 1, 67),
          <<18>> \o Repeat(0, 67)}

\* the info_hash field of 68 handshake bytes
InfoHashOf(bytes) == SubSeq(bytes, 29, 48)

\* NetworkManager::new and add_torrent, and a connection the listener accepted
ConnInit ==
    /\ peers = <<>>
    /\ unchoked_peers = {}
    /\ optimistic_unchoke = None
    /\ max_peers \in 0 .. MaxConnPeers
    /\ chokeRounds = FALSE
    /\ regRet = RegRet("new", "Ok")
    /\ lastBest = <<>>
    /\ our_bitfield = {}
    /\ num_pieces = SessionNumPieces
    /\ lastRarest = <<>>
    /\ torrents \in SUBSET Hash20Samples
    /\ connPc = "accepted"
    /\ connLog = <<>>

\* HandshakeHandler::perform_handshake: send_handshake(&our_handshake)
ConnSendHandshake(writeOk) ==
    /\ connPc = "accepted"
    /\ IF writeOk
       THEN /\ connLog' = Append(connLog,
                 [op |-> "write",
                  bytes |-> HandshakeSerialize(HandshakeNew(OurInfoHash, OurPeerId))])
            /\ connPc' = "sent"
       ELSE /\ connPc' = "failed"
            /\ UNCHANGED connLog
    /\ UNCHANGED torrents
    /\ UNCHANGED nonConnVars

\* HandshakeHandler::perform_handshake: receive_handshake, then the info
\* hash is compared with ours
ConnReceiveHandshake(stream) ==
    /\ connPc = "sent"
    /\ IF Len(stream) < HandshakeLen
       THEN /\ connPc' = "failed"
            /\ UNCHANGED connLog
       ELSE LET buf == SubSeq(stream, 1, HandshakeLen)
                their == HandshakeDeserialize(buf)
            IN  /\ connLog' = Append(connLog, [op |-> "read", bytes |-> buf])
                /\ connPc' = IF their.ok /\ Unwrap(their.hs).info_hash = OurInfoHash
                             THEN "handshaken" ELSE "failed"
    /\ UNCHANGED torrents
    /\ UNCHANGED nonConnVars

\* handle_incoming_connection: the handshake did not finish within
\* connection_timeout
ConnTimeout ==
    /\ connPc \in {"accepted", "sent"}
    /\ connPc' = "failed"
    /\ UNCHANGED <<torrents, connLog>>
    /\ UNCHANGED nonConnVars

\* the handshake read last
TheirHandshake == Unwrap(HandshakeDeserialize(connLog[Len(connLog)].bytes).hs)

\* handle_incoming_connection after the handshake: the torrent is looked up
\* by their_handshake.info_hash and the peer is added to the registry
ConnAddPeer ==
    /\ connPc = "handshaken"
    /\ IF TheirHandshake.info_hash \notin torrents
       THEN /\ connPc' = "failed"
            /\ UNCHANGED <<peers, regRet>>
       ELSE /\ regRet' = AddPeerRet
            /\ peers' = PeersAfterAdd(SessPeer)
            /\ connPc' = IF AddPeerOk THEN "loop" ELSE "failed"
    /\ UNCHANGED <<unchoked_peers, optimistic_unchoke, max_peers, chokeRounds, lastBest,
                   our_bitfield, num_pieces, lastRarest>>
    /\ UNCHANGED <<torrents, connLog>>
    /\ UNCHANGED <<storeVars, codecVars, streamVars, handshakeVars, sessionVars,
                   fileVars, bitfieldVars, validateVars, cmVars, stallVars, lockVars>>

ConnNext ==
    \/ \E writeOk \in BOOLEAN : ConnSendHandshake(writeOk)
    \/ \E stream \in RemoteStreams : ConnReceiveHandshake(stream)
    \/ ConnTimeout
    \/ ConnAddPeer

\* NetworkManager::new and add_torrent, and a call of connect_to_peer
DialInit ==
    /\ peers = <<>>
    /\ unchoked_peers = {}
    /\ optimistic_unchoke = None
    /\ max_peers \in 0 .. MaxConnPeers
    /\ chokeRounds = FALSE
    /\ regRet = RegRet("new", "Ok")
    /\ lastBest = <<>>
    /\ our_bitfield = {}
    /\ num_pieces = SessionNumPieces
    /\ lastRarest = <<>>
    /\ torrents \in SUBSET Hash20Samples
    /\ connPc \in {"accepted", "dialing"}
    /\ connLog = <<>>

\* connect_to_peer: TcpStream::connect
DialConnect(ok) ==
    /\ connPc = "dialing"
    /\ connPc' = IF ok THEN "connected" ELSE "failed"
    /\ UNCHANGED <<torrents, connLog>>
    /\ UNCHANGED nonConnVars

\* connect_to_peer(addr, info_hash, peer_id): perform_handshake sends
\* Handshake::new(info_hash, peer_id)
DialSendHandshake(info_hash, peer_id, writeOk) ==
    /\ connPc = "connected"
    /\ IF writeOk
       THEN /\ connLog' = Append(connLog,
                 [op |-> "write",
                  bytes |-> HandshakeSerialize(HandshakeNew(info_hash, peer_id))])
            /\ connPc' = "dial_sent"
       ELSE /\ connPc' = "failed"
            /\ UNCHANGED connLog
    /\ UNCHANGED torrents
    /\ UNCHANGED nonConnVars

\* the info_hash connect_to_peer was called with
DialInfoHash == InfoHashOf(connLog[1].bytes)

\* connect_to_peer: perform_handshake receives the remote's handshake and
\* compares its info hash with the one sent
DialReceiveHandshake(stream) ==
    /\ connPc = "dial_sent"
    /\ IF Len(stream) < HandshakeLen
       THEN /\ connPc' = "failed"
            /\ UNCHANGED connLog
       ELSE LET buf == SubSeq(stream, 1, HandshakeLen)
                their == HandshakeDeserialize(buf)
            IN  /\ connLog' = Append(connLog, [op |-> "read", bytes |-> buf])
                /\ connPc' = IF their.ok /\ Unwrap(their.hs).info_hash = DialInfoHash
                             THEN "dial_handshaken" ELSE "failed"
    /\ UNCHANGED torrents
    /\ UNCHANGED nonConnVars

\* connect_to_peer after the handshake: the torrent is looked up by the
\* info_hash of the call and the peer is added to the registry
DialAddPeer ==
    /\ connPc = "dial_handshaken"
    /\ IF DialInfoHash \notin torrents
       THEN /\ connPc' = "failed"
            /\ UNCHANGED <<peers, regRet>>
       ELSE /\ regRet' = AddPeerRet
            /\ peers' = PeersAfterAdd(SessPeer)
            /\ connPc' = IF AddPeerOk THEN "loop" ELSE "failed"
    /\ UNCHANGED <<unchoked_peers, optimistic_unchoke, max_peers, chokeRounds, lastBest,
                   our_bitfield, num_pieces, lastRarest>>
    /\ UNCHANGED <<torrents, connLog>>
    /\ UNCHANGED <<storeVars, codecVars, streamVars, handshakeVars, sessionVars,
                   fileVars, bitfieldVars, validateVars, cmVars, stallVars, lockVars>>

DialNext ==
    \/ \E ok \in BOOLEAN : DialConnect(ok)
    \/ \E ih \in Hash20Samples, pid \in {Repeat(1, 20), Repeat(2, 20)}, writeOk \in BOOLEAN :
          DialSendHandshake(ih, pid, writeOk)
    \/ \E stream \in RemoteStreams : DialReceiveHandshake(stream)
    \/ DialAddPeer
    \/ \E writeOk \in BOOLEAN : ConnSendHandshake(writeOk)
    \/ \E stream \in RemoteStreams : ConnReceiveHandshake(stream)
    \/ ConnTimeout
    \/ ConnAddPeer

ConnIdle ==
    /\ torrents = {}
    /\ connPc = "idle"
    /\ connLog = <<>>

CmIdle ==
    /\ cm_state = "Connecting"
    /\ cm_handler = FALSE
    /\ cm_last = [op |-> "none", before |-> "Connecting", ret |-> "Ok", exchanged |-> None]

StallIdle ==
    /\ stall_pc = "idle"
    /\ stall_idle = 0
    /\ stall_ka = 0

LockIdle ==
    /\ lk_pc = <<>>
    /\ lk_held = <<>>
    /\ lk_queue = <<>>

(***************************************************************************)
(* The timing of the message loop of handle_peer_connection               *)
(* (network/mod.rs 197-245).  Time advances in units of the receive        *)
(* timeout: stall_idle is the time in seconds since the last message       *)
(* arrived, a quantity the code does not keep, saturated at MaxIdle.       *)
(* stall_ka counts the Keep-Alives the loop wrote, modulo KeepAliveWindow. *)
(***************************************************************************)
RecvTimeout == 30

StallLimit == 20 * RecvTimeout

MaxIdle == StallLimit + RecvTimeout

KeepAliveWindow == 8

StallInit ==
    /\ stall_pc = "loop"
    /\ stall_idle = 0
    /\ stall_ka = 0

\* Ok(Ok(message)): the message is handled; an error of handle_message
\* breaks the loop (lines 210-227).
StallMessage(handledOk) ==
    /\ stall_pc = "loop"
    /\ stall_idle' = 0
    /\ stall_pc' = IF handledOk THEN "loop" ELSE "closed"
    /\ UNCHANGED stall_ka
    /\ UNCHANGED nonStallVars

\* Ok(Err(e)): the receive failed; the loop breaks (lines 228-231).
StallRecvError ==
    /\ stall_pc = "loop"
    /\ stall_pc' = "closed"
    /\ UNCHANGED <<stall_idle, stall_ka>>
    /\ UNCHANGED nonStallVars

\* Err(_): nothing arrived within RecvTimeout; a Keep-Alive is written and
\* the loop goes on unless the write fails (lines 232-238).
StallTimeout(writeOk) ==
    /\ stall_pc = "loop"
    /\ stall_idle' = IF stall_idle + RecvTimeout > MaxIdle THEN MaxIdle ELSE stall_idle + RecvTimeout
    /\ stall_ka' = IF writeOk THEN (stall_ka + 1) % KeepAliveWindow ELSE stall_ka
    /\ stall_pc' = IF writeOk THEN "loop" ELSE "closed"
    /\ UNCHANGED nonStallVars

StallNext ==
    \/ \E handledOk \in BOOLEAN : StallMessage(handledOk)
    \/ StallRecvError
    \/ \E writeOk \in BOOLEAN : StallTimeout(writeOk)

(***************************************************************************)
(* ConnectionManager (network/connection.rs): the state of its            *)
(* ConnectionInfo, and whether protocol_handler is Some.  cm_last records  *)
(* the last call: the state it found, its result, and the regular message   *)
(* that went over the stream in it, if one did.                            *)
(***************************************************************************)
\* what the network does to one call of connect
ConnectOutcomes == {"tcp_error", "io_error", "timeout", "mismatch", "ok"}

\* what the network does to one receive
ReceiveOutcomes == {"message", "io_error", "timeout"}

\* the regular messages a call sends or receives
CmMessages == {KeepAliveMsg, ChokeMsg, UnchokeMsg, InterestedMsg, NotInterestedMsg, HaveMsg(0), CancelMsg(0, 0, 1), PortMsg(6881)}

CmCall(op, before, ret, exchanged) ==
    [op |-> op, before |-> before, ret |-> ret, exchanged |-> exchanged]

\* ConnectionInfo::new and ConnectionManager::new
CmInit ==
    /\ cm_state = "Connecting"
    /\ cm_handler = FALSE
    /\ cm_last = CmCall("new", "Connecting", "Ok", None)

\* ConnectionManager::connect with perform_handshake: the state is set to
\* Connecting; a failed TcpStream::connect returns through `?` at once;
\* otherwise the state is Handshaking, and an error or a timeout of the
\* handshake (an info_hash mismatch is an error of
\* HandshakeHandler::perform_handshake) sets Failed, and a completed
\* handshake stores a new protocol handler and sets Connected.
CmConnect(outcome) ==
    /\ cm_state' = CASE outcome = "tcp_error" -> "Connecting"
                     [] outcome = "ok" -> "Connected"
                     [] OTHER -> "Failed"
    /\ cm_handler' = IF outcome = "ok" THEN TRUE ELSE cm_handler
    /\ cm_last' = CmCall("connect", cm_state, IF outcome = "ok" THEN "Ok" ELSE outcome, None)
    /\ UNCHANGED nonCmVars

\* the guard of send_message, receive_message and receive_message_timeout:
\* `if let Some(protocol_handler) = &mut self.protocol_handler`
HasHandler == cm_handler

\* ConnectionManager::send_message
CmSendMessage(message, writeOk) ==
    /\ cm_last' = IF HasHandler
                  THEN CmCall("send_message", cm_state, IF writeOk THEN "Ok" ELSE "io_error", IF writeOk THEN Some(message) ELSE None)
                  ELSE CmCall("send_message", cm_state, "Not connected", None)
    /\ UNCHANGED <<cm_state, cm_handler>>
    /\ UNCHANGED nonCmVars

\* ConnectionManager::receive_message: there is no timeout, the call
\* returns when a message or an error arrives
CmReceiveMessage(message, outcome) ==
    /\ outcome # "timeout"
    /\ cm_last' = IF HasHandler
                  THEN CmCall("receive_message", cm_state, IF outcome = "message" THEN "Ok" ELSE outcome, IF outcome = "message" THEN Some(message) ELSE None)
                  ELSE CmCall("receive_message", cm_state, "Not connected", None)
    /\ UNCHANGED <<cm_state, cm_handler>>
    /\ UNCHANGED nonCmVars

\* ConnectionManager::receive_message_timeout: an error and a timeout set
\* the state to Failed and leave protocol_handler in place
CmReceiveMessageTimeout(message, outcome) ==
    /\ cm_last' = IF HasHandler
                  THEN CmCall("receive_message_timeout", cm_state, IF outcome = "message" THEN "Ok" ELSE outcome, IF outcome = "message" THEN Some(message) ELSE None)
                  ELSE CmCall("receive_message_timeout", cm_state, "Not connected", None)
    /\ cm_state' = IF HasHandler /\ outcome # "message" THEN "Failed" ELSE cm_state
    /\ UNCHANGED cm_handler
    /\ UNCHANGED nonCmVars

\* ConnectionManager::disconnect
CmDisconnect ==
    /\ cm_state' = "Disconnected"
    /\ cm_handler' = FALSE
    /\ cm_last' = CmCall("disconnect", cm_state, "Ok", None)
    /\ UNCHANGED nonCmVars

CmNext ==
    \/ \E outcome \in ConnectOutcomes : CmConnect(outcome)
    \/ \E message \in CmMessages, writeOk \in BOOLEAN : CmSendMessage(message, writeOk)
    \/ \E message \in CmMessages, outcome \in ReceiveOutcomes : CmReceiveMessage(message, outcome)
    \/ \E message \in CmMessages, outcome \in ReceiveOutcomes : CmReceiveMessageTimeout(message, outcome)
    \/ CmDisconnect

(***************************************************************************)
(* scan_existing_files over files left by an earlier run or by another     *)
(* program: every declared file exists, with any length up to the declared *)
(* one.  The paths are taken in declared order.                            *)
(***************************************************************************)
\* FileManager::new and initialize, before allocate_files
ScanInit ==
    /\ pieces \in [PieceIdx -> {PieceNew(h) : h \in Digests}]
    /\ bitfield = [i \in PieceIdx |-> FALSE]
    /\ piece_cache = [i \in PieceIdx |-> None]
    /\ cache_size = MaxCache
    /\ lastOp = [op |-> "new", idx |-> 0, data |-> None, ret |-> "Ok", failed |-> {}]
    /\ file_sizes \in FileLayouts
    /\ path_order = [f \in 1 .. Len(file_sizes) |-> f]
    /\ \E lens \in [1 .. Len(file_sizes) -> 0 .. NumPieces * PieceLen] :
          /\ \A f \in 1 .. Len(file_sizes) : lens[f] <= file_sizes[f]
          /\ files = [f \in 1 .. Len(file_sizes) |-> [b \in 1 .. lens[f] |-> 0]]

ScanNext ==
    \/ \E i \in PieceIdx, d \in Data : LayoutAddPieceData(i, d)
    \/ FlushToDisk
    \/ ScanExistingFiles

(***************************************************************************)
(* The two RwLocks of NetworkManager, peer_manager and torrent_info, and   *)
(* the tasks that take them: connect_to_peer, handle_incoming_connection   *)
(* and add_torrent_info (network/mod.rs).  lk_pc[t] is what task t runs    *)
(* and where it is, lk_held[l] the guards of lock l that are alive, and    *)
(* lk_queue[l] the requests waiting for l, oldest first.                   *)
(***************************************************************************)
\* bound: the number of tasks that run at the same time
NumLockTasks == 3

LockTasks == 1 .. NumLockTasks

Locks == {"peer_manager", "torrent_info"}

TaskKinds == {"connect_to_peer", "handle_incoming_connection", "add_torrent_info"}

At(kind, at) == [kind |-> kind, at |-> at]

Guard(t, mode) == [task |-> t, mode |-> mode]

\* NetworkManager::new: both locks free, no task started
LockInit ==
    /\ lk_pc = [t \in LockTasks |-> At("none", "done")]
    /\ lk_held = [l \in Locks |-> {}]
    /\ lk_queue = [l \in Locks |-> <<>>]

\* tokio's RwLock: a read guard is granted while no write guard is alive, a
\* write guard while no guard is alive
Compatible(l, mode) ==
    IF mode = "read"
    THEN \A g \in lk_held[l] : g.mode = "read"
    ELSE lk_held[l] = {}

\* a guard of task t on lock l is dropped
Dropped(held, t, l) == [held EXCEPT ![l] = {g \in @ : g.task # t}]

\* the guards a returning task leaves alive, with the drop at the end of
\* the scope left out
DroppedNone(held, t) == held

\* every guard of task t is dropped: the task returns
DroppedAll(held, t) == [l \in Locks |-> {g \in held[l] : g.task # t}]

\* the task polls l.read() or l.write(): the request joins the queue of l
LockRequest(t, l, mode, next) ==
    /\ lk_queue' = [lk_queue EXCEPT ![l] = Append(@, Guard(t, mode))]
    /\ lk_pc' = [lk_pc EXCEPT ![t] = At(@.kind, next)]
    /\ UNCHANGED lk_held
    /\ UNCHANGED nonLockVars

\* a task is started: tokio::spawn of handle_incoming_connection by the
\* accept loop, or a call of connect_to_peer or add_torrent_info
LockStart(t, kind) ==
    /\ lk_pc[t].at = "done"
    /\ lk_pc' = [lk_pc EXCEPT ![t] = At(kind, "start")]
    /\ UNCHANGED <<lk_held, lk_queue>>
    /\ UNCHANGED nonLockVars

\* tokio's RwLock hands the lock to the oldest request once it is
\* compatible with the guards alive; later requests wait behind it
LockGrant(t, l) ==
    /\ lk_queue[l] # <<>>
    /\ Head(lk_queue[l]).task = t
    /\ Compatible(l, Head(lk_queue[l]).mode)
    /\ lk_held' = [lk_held EXCEPT ![l] = @ \cup {Head(lk_queue[l])}]
    /\ lk_queue' = [lk_queue EXCEPT ![l] = Tail(@)]
    /\ lk_pc' = [lk_pc EXCEPT ![t] = At(@.kind, IF l = "peer_manager" THEN "has_peer_manager" ELSE "has_torrent_info")]
    /\ UNCHANGED nonLockVars

\* connect_to_peer and handle_incoming_connection up to their first lock:
\* the TCP connect and the handshake; a failure returns before any lock
LockHandshake(t, ok) ==
    /\ lk_pc[t].kind \in {"connect_to_peer", "handle_incoming_connection"}
    /\ lk_pc[t].at = "start"
    /\ lk_pc' = [lk_pc EXCEPT ![t] = At(@.kind, IF ok THEN "handshaken" ELSE "done")]
    /\ UNCHANGED <<lk_held, lk_queue>>
    /\ UNCHANGED nonLockVars

\* connect_to_peer: self.peer_manager.write().await
ConnectLockPeers(t) ==
    /\ lk_pc[t] = At("connect_to_peer", "handshaken")
    /\ LockRequest(t, "peer_manager", "write", "wait_peer_manager")

\* connect_to_peer: self.torrent_info.read().await, with the write guard of
\* peer_manager alive
ConnectLockTorrents(t) ==
    /\ lk_pc[t] = At("connect_to_peer", "has_peer_manager")
    /\ LockRequest(t, "torrent_info", "read", "wait_torrent_info")

\* connect_to_peer: the lookup of info_hash.  Unknown: `?` returns and both
\* guards are dropped with the scope.  Known: drop(torrent_info_guard).
ConnectLookup(t, found) ==
    /\ lk_pc[t] = At("connect_to_peer", "has_torrent_info")
    /\ lk_held' = IF found THEN Dropped(lk_held, t, "torrent_info") ELSE DroppedAll(lk_held, t)
    /\ lk_pc' = [lk_pc EXCEPT ![t] = At(@.kind, IF found THEN "looked_up" ELSE "done")]
    /\ UNCHANGED lk_queue
    /\ UNCHANGED nonLockVars

\* connect_to_peer: add_peer, then drop(peer_manager_guard); an error of
\* add_peer returns through `?` and the guard is dropped with the scope
ConnectAddPeer(t, ok) ==
    /\ lk_pc[t] = At("connect_to_peer", "looked_up")
    /\ lk_held' = IF ok THEN Dropped(lk_held, t, "peer_manager") ELSE DroppedAll(lk_held, t)
    /\ lk_pc' = [lk_pc EXCEPT ![t] = At(@.kind, "done")]
    /\ UNCHANGED lk_queue
    /\ UNCHANGED nonLockVars

\* handle_incoming_connection: torrent_info.read().await
IncomingLockTorrents(t) ==
    /\ lk_pc[t] = At("handle_incoming_connection", "handshaken")
    /\ LockRequest(t, "torrent_info", "read", "wait_torrent_info")

\* handle_incoming_connection: contains_key.  Unknown: return Err, the guard
\* is dropped with the scope.  Known: clone and drop(torrent_info_guard).
IncomingLookup(t, found) ==
    /\ lk_pc[t] = At("handle_incoming_connection", "has_torrent_info")
    /\ lk_held' = IF found THEN Dropped(lk_held, t, "torrent_info") ELSE DroppedAll(lk_held, t)
    /\ lk_pc' = [lk_pc EXCEPT ![t] = At(@.kind, IF found THEN "looked_up" ELSE "done")]
    /\ UNCHANGED lk_queue
    /\ UNCHANGED nonLockVars

\* handle_incoming_connection: peer_manager.write().await
IncomingLockPeers(t) ==
    /\ lk_pc[t] = At("handle_incoming_connection", "looked_up")
    /\ LockRequest(t, "peer_manager", "write", "wait_peer_manager")

\* handle_incoming_connection: add_peer, then drop(peer_manager_guard); an
\* error of add_peer returns through `?`.  The message loop that follows
\* takes no lock.
IncomingAddPeer(t, ok) ==
    /\ lk_pc[t] = At("handle_incoming_connection", "has_peer_manager")
    /\ lk_held' = IF ok THEN Dropped(lk_held, t, "peer_manager") ELSE DroppedAll(lk_held, t)
    /\ lk_pc' = [lk_pc EXCEPT ![t] = At(@.kind, "done")]
    /\ UNCHANGED lk_queue
    /\ UNCHANGED nonLockVars

\* add_torrent_info: self.torrent_info.write().await
AddTorrentLock(t) ==
    /\ lk_pc[t] = At("add_torrent_info", "start")
    /\ LockRequest(t, "torrent_info", "write", "wait_torrent_info")

\* add_torrent_info: insert and return; the guard is dropped with the scope
AddTorrentInsert(t) ==
    /\ lk_pc[t] = At("add_torrent_info", "has_torrent_info")
    /\ lk_held' = DroppedAll(lk_held, t)
    /\ lk_pc' = [lk_pc EXCEPT ![t] = At(@.kind, "done")]
    /\ UNCHANGED lk_queue
    /\ UNCHANGED nonLockVars

\* one step of task t
LockStep(t) ==
    \/ \E ok \in BOOLEAN : LockHandshake(t, ok)
    \/ ConnectLockPeers(t)
    \/ ConnectLockTorrents(t)
    \/ \E found \in BOOLEAN : ConnectLookup(t, found)
    \/ \E ok \in BOOLEAN : ConnectAddPeer(t, ok)
    \/ IncomingLockTorrents(t)
    \/ \E found \in BOOLEAN : IncomingLookup(t, found)
    \/ IncomingLockPeers(t)
    \/ \E ok \in BOOLEAN : IncomingAddPeer(t, ok)
    \/ AddTorrentLock(t)
    \/ AddTorrentInsert(t)
    \/ \E l \in Locks : LockGrant(t, l)

LockNext ==
    \/ \E t \in LockTasks, kind \in TaskKinds : LockStart(t, kind)
    \/ \E t \in LockTasks, ok \in BOOLEAN : LockHandshake(t, ok)
    \/ \E t \in LockTasks : ConnectLockPeers(t)
    \/ \E t \in LockTasks : ConnectLockTorrents(t)
    \/ \E t \in LockTasks, found \in BOOLEAN : ConnectLookup(t, found)
    \/ \E t \in LockTasks, ok \in BOOLEAN : ConnectAddPeer(t, ok)
    \/ \E t \in LockTasks : IncomingLockTorrents(t)
    \/ \E t \in LockTasks, found \in BOOLEAN : IncomingLookup(t, found)
    \/ \E t \in LockTasks : IncomingLockPeers(t)
    \/ \E t \in LockTasks, ok \in BOOLEAN : IncomingAddPeer(t, ok)
    \/ \E t \in LockTasks : AddTorrentLock(t)
    \/ \E t \in LockTasks : AddTorrentInsert(t)
    \/ \E t \in LockTasks, l \in Locks : LockGrant(t, l)

(***************************************************************************)
(* Specifications, one per subsystem.                                      *)
(***************************************************************************)
InitStore == StoreInit /\ CodecIdle /\ StreamIdle /\ HandshakeIdle /\ RegistryIdle /\ SessionIdle /\ FilesIdle /\ BitfieldIdle /\ ValidateIdle /\ ConnIdle /\ CmIdle /\ StallIdle /\ LockIdle
SpecStore == InitStore /\ [][StoreNext]_vars

InitFiles == FilesInit /\ CodecIdle /\ StreamIdle /\ HandshakeIdle /\ RegistryIdle /\ SessionIdle /\ BitfieldIdle /\ ValidateIdle /\ ConnIdle /\ CmIdle /\ StallIdle /\ LockIdle
SpecFiles == InitFiles /\ [][FilesNext]_vars

InitCodec == StoreIdle /\ CodecInit /\ StreamIdle /\ HandshakeIdle /\ RegistryIdle /\ SessionIdle /\ FilesIdle /\ BitfieldIdle /\ ValidateIdle /\ ConnIdle /\ CmIdle /\ StallIdle /\ LockIdle
SpecCodec == InitCodec /\ [][CodecNext]_vars

InitStream == StoreIdle /\ CodecIdle /\ StreamInit /\ HandshakeIdle /\ RegistryIdle /\ SessionIdle /\ FilesIdle /\ BitfieldIdle /\ ValidateIdle /\ ConnIdle /\ CmIdle /\ StallIdle /\ LockIdle
SpecStream == InitStream /\ [][StreamNext]_vars

InitOversize == StoreIdle /\ CodecIdle /\ OversizeInit /\ HandshakeIdle /\ RegistryIdle /\ SessionIdle /\ FilesIdle /\ BitfieldIdle /\ ValidateIdle /\ ConnIdle /\ CmIdle /\ StallIdle /\ LockIdle
SpecOversize == InitOversize /\ [][StreamNext]_vars

InitHandshake == StoreIdle /\ CodecIdle /\ StreamIdle /\ HandshakeInit /\ RegistryIdle /\ SessionIdle /\ FilesIdle /\ BitfieldIdle /\ ValidateIdle /\ ConnIdle /\ CmIdle /\ StallIdle /\ LockIdle
SpecHandshake == InitHandshake /\ [][HandshakeNext]_vars

InitChoke == StoreIdle /\ CodecIdle /\ StreamIdle /\ HandshakeIdle /\ RegistryInit /\ SessionIdle /\ FilesIdle /\ BitfieldIdle /\ ValidateIdle /\ ConnIdle /\ CmIdle /\ StallIdle /\ LockIdle
SpecChoke == InitChoke /\ [][ChokeNext]_vars

InitSched == StoreIdle /\ CodecIdle /\ StreamIdle /\ HandshakeIdle /\ SchedInit /\ SessionIdle /\ FilesIdle /\ BitfieldIdle /\ ValidateIdle /\ ConnIdle /\ CmIdle /\ StallIdle /\ LockIdle
SpecSched == InitSched /\ [][SchedNext]_vars

InitRarity == StoreIdle /\ CodecIdle /\ StreamIdle /\ HandshakeIdle /\ RarityInit /\ SessionIdle /\ FilesIdle /\ BitfieldIdle /\ ValidateIdle /\ ConnIdle /\ CmIdle /\ StallIdle /\ LockIdle
SpecRarity == InitRarity /\ [][RarityNext]_vars

InitSession == StoreIdle /\ CodecIdle /\ StreamIdle /\ HandshakeIdle /\ SessionInit /\ FilesIdle /\ BitfieldIdle /\ ValidateIdle /\ ConnIdle /\ CmIdle /\ StallIdle /\ LockIdle
SpecSession == InitSession /\ [][SessionNext]_vars

\* the session task and the registry's callers keep being scheduled
SpecSessionFair == SpecSession /\ WF_vars(SessionNext)

InitBitfield == StoreIdle /\ CodecIdle /\ StreamIdle /\ HandshakeIdle /\ RegistryIdle /\ SessionIdle /\ FilesIdle /\ BitfieldInit /\ ValidateIdle /\ ConnIdle /\ CmIdle /\ StallIdle /\ LockIdle
SpecBitfield == InitBitfield /\ [][BitfieldNext]_vars

InitDispatch == StoreIdle /\ CodecIdle /\ StreamIdle /\ HandshakeIdle /\ DispatchInit /\ SessionIdle /\ FilesIdle /\ BitfieldIdle /\ ValidateIdle /\ ConnIdle /\ CmIdle /\ StallIdle /\ LockIdle
SpecDispatch == InitDispatch /\ [][DispatchNext]_vars

InitValidate == StoreIdle /\ CodecIdle /\ StreamIdle /\ HandshakeIdle /\ RegistryIdle /\ SessionIdle /\ FilesIdle /\ BitfieldIdle /\ ValidateInit /\ ConnIdle /\ CmIdle /\ StallIdle /\ LockIdle
SpecValidate == InitValidate /\ [][ValidateNext]_vars

InitLayout == LayoutInit /\ CodecIdle /\ StreamIdle /\ HandshakeIdle /\ RegistryIdle /\ SessionIdle /\ BitfieldIdle /\ ValidateIdle /\ ConnIdle /\ CmIdle /\ StallIdle /\ LockIdle
SpecLayout == InitLayout /\ [][LayoutNext]_vars

InitInbound == StoreIdle /\ CodecIdle /\ StreamIdle /\ HandshakeIdle /\ ConnInit /\ SessionIdle /\ FilesIdle /\ BitfieldIdle /\ ValidateIdle /\ CmIdle /\ StallIdle /\ LockIdle
SpecInbound == InitInbound /\ [][ConnNext]_vars

InitDial == StoreIdle /\ CodecIdle /\ StreamIdle /\ HandshakeIdle /\ DialInit /\ SessionIdle /\ FilesIdle /\ BitfieldIdle /\ ValidateIdle /\ CmIdle /\ StallIdle /\ LockIdle
SpecDial == InitDial /\ [][DialNext]_vars

InitStall == StoreIdle /\ CodecIdle /\ StreamIdle /\ HandshakeIdle /\ RegistryIdle /\ SessionIdle /\ FilesIdle /\ BitfieldIdle /\ ValidateIdle /\ ConnIdle /\ CmIdle /\ StallInit /\ LockIdle
SpecStall == InitStall /\ [][StallNext]_vars

\* The task of a session is scheduled again whenever the receive or its
\* timer completes: the loop takes a step as long as it has not broken.
SpecStallFair == SpecStall /\ WF_vars(StallNext)

InitCm == StoreIdle /\ CodecIdle /\ StreamIdle /\ HandshakeIdle /\ RegistryIdle /\ SessionIdle /\ FilesIdle /\ BitfieldIdle /\ ValidateIdle /\ ConnIdle /\ CmInit /\ StallIdle /\ LockIdle
SpecCm == InitCm /\ [][CmNext]_vars

InitScan == ScanInit /\ CodecIdle /\ StreamIdle /\ HandshakeIdle /\ RegistryIdle /\ SessionIdle /\ BitfieldIdle /\ ValidateIdle /\ ConnIdle /\ CmIdle /\ StallIdle /\ LockIdle
SpecScan == InitScan /\ [][ScanNext]_vars

InitLocks == StoreIdle /\ CodecIdle /\ StreamIdle /\ HandshakeIdle /\ RegistryIdle /\ SessionIdle /\ FilesIdle /\ BitfieldIdle /\ ValidateIdle /\ ConnIdle /\ CmIdle /\ StallIdle /\ LockInit
SpecLocks == InitLocks /\ [][LockNext]_vars

\* the runtime polls every task that can run, and the lock serves the
\* oldest request once it can
SpecLocksFair == SpecLocks /\ \A t \in LockTasks : WF_vars(LockStep(t))

(***************************************************************************)
(* Claims about the piece store.                                           *)
(***************************************************************************)

\* C1: every piece whose bit is set in the store's bitfield is verified and
\* holds data whose SHA-1 equals the stored hash of that piece.
C1_BitImpliesVerifiedData ==
    \A i \in PieceIdx :
        bitfield[i] =>
            /\ pieces[i].verified
            /\ pieces[i].data # None
            /\ Sha1(Unwrap(pieces[i].data)) = pieces[i].hash

\* a step that is a call add_piece_data(idx, bytes) on a valid idx with
\* bytes whose SHA-1 differs from the stored hash of idx
MismatchedSubmit ==
    /\ lastOp'.op = "add_piece_data"
    /\ IsValidPiece(lastOp'.idx)
    /\ Sha1(Unwrap(lastOp'.data)) # pieces[lastOp'.idx].hash

\* C2: add_piece_data with bytes whose SHA-1 differs from the stored hash
\* returns Ok(false) and leaves pieces, bitfield and cache exactly as before.
C2_MismatchLeavesStoreUnchanged ==
    [][MismatchedSubmit =>
          /\ lastOp'.ret = "Ok(false)"
          /\ pieces' = pieces
          /\ bitfield' = bitfield
          /\ piece_cache' = piece_cache]_vars

\* C15: the piece cache never holds more than cache_size entries, whatever
\* cache_size was configured (0 included) and whatever add_piece_data,
\* evict_from_cache, verify_all_pieces and clear_cache calls were made.
C15_CacheBounded ==
    Cardinality(CacheKeys(piece_cache)) <= cache_size

\* C19: add_piece_data on a valid index returns Ok(true) exactly when the
\* SHA-1 of the submitted bytes equals the stored hash of the piece, and right
\* after such a call the bit of the piece is set, the piece is verified and
\* get_piece_data returns the submitted bytes.
C19_AcceptedIffHashMatches ==
    lastOp.op = "add_piece_data" /\ IsValidPiece(lastOp.idx) =>
        /\ lastOp.ret = "Ok(true)" <=>
               Sha1(Unwrap(lastOp.data)) = pieces[lastOp.idx].hash
        /\ lastOp.ret = "Ok(true)" =>
               /\ bitfield[lastOp.idx]
               /\ pieces[lastOp.idx].verified
               /\ GetPieceData(lastOp.idx) = lastOp.data

\* matching bytes were accepted while the cache was full, so that the insertion
\* evicted another piece
C19_Witness ==
    /\ lastOp.op = "add_piece_data"
    /\ lastOp.ret = "Ok(true)"
    /\ cache_size = 1
    /\ \E i \in PieceIdx : i # lastOp.idx /\ bitfield[i] /\ piece_cache[i] = None

\* C16: right after write_to_files has returned Ok, for every piece the store
\* holds, the bytes of the concatenated files at offset piece_index *
\* piece_length, read the way load_from_files reads them, are the bytes of
\* that piece, whichever other pieces are held or missing.
C16_FileLayoutRoundTrip ==
    lastOp.op = "write_to_files" /\ lastOp.ret = "Ok" =>
        \A i \in PieceIdx :
            bitfield[i] =>
                ReadSpans(PieceSize(i), <<>>, 0, i * PieceLen)
                    = PieceBytes(Unwrap(GetPieceData(i)))

\* the store of the piece manager, as the operators over stores take it
StoreNow == [pieces |-> pieces, bitfield |-> bitfield, piece_cache |-> piece_cache]

\* the pieces a store flags as verified
VerifiedSet(st) == {i \in PieceIdx : st.bitfield[i]}

\* C25: against the same on-disk state, scan_existing followed by verify_all
\* leaves the same verified set as scan_existing alone, and the same verified
\* set as verify_all alone.
C25_ScanVerifyIdempotent ==
    \A scanned \in LoadFrom(StoreNow, 0, 0) :
        /\ VerifiedSet(VerifyAllOn(scanned)) = VerifiedSet(scanned)
        /\ VerifiedSet(VerifyAllOn(scanned)) = VerifiedSet(VerifyAllOn(StoreNow))

\* the pieces flagged complete whose data does not hash to the stored hash
FlaggedAndMismatching ==
    {i \in PieceIdx :
        /\ bitfield[i]
        /\ ~(pieces[i].data # None /\ Sha1(Unwrap(pieces[i].data)) = pieces[i].hash)}

\* C28: verify_all_pieces returns exactly the pieces that were flagged
\* complete and whose data does not hash to the stored hash; it downgrades
\* each of them (bit cleared, data dropped, verified false, cache entry
\* removed) and leaves every other piece, its bit and its cache entry
\* unchanged; a second call right after would return the empty set and
\* change nothing.
C28_VerifyAllDowngradesExactly ==
    [][lastOp'.op = "verify_all_pieces" =>
        /\ lastOp'.failed = FlaggedAndMismatching
        /\ \A i \in FlaggedAndMismatching :
               /\ ~bitfield'[i]
               /\ pieces'[i].data = None
               /\ ~pieces'[i].verified
               /\ pieces'[i].hash = pieces[i].hash
               /\ piece_cache'[i] = None
        /\ \A i \in PieceIdx \ FlaggedAndMismatching :
               /\ pieces'[i] = pieces[i]
               /\ bitfield'[i] = bitfield[i]
               /\ piece_cache'[i] = piece_cache[i]
        /\ FlaggedAndMismatching' = {}
        /\ VerifyAllOn(StoreNow') = StoreNow'
    ]_vars

C28_Witness ==
    /\ lastOp.op = "verify_all_pieces"
    /\ lastOp.failed # {}
    /\ \E i \in lastOp.failed : ~bitfield[i] /\ pieces[i].data = None
    /\ \E j \in PieceIdx \ lastOp.failed : bitfield[j] /\ piece_cache[j] # None

(***************************************************************************)
(* Claims about the wire codec and the streaming decoder.                  *)
(***************************************************************************)

\* the results receive_message must have returned for the first n messages sent
ExpectedResults(n) == [k \in 1 .. n |-> OkMsg(sentMsgs[k])]

\* C3: whatever the split of the byte stream into socket reads, the messages
\* receive_message returns are the messages serialized, in order; the bytes
\* still buffered or unread are exactly the frames of the messages not yet
\* returned, and at end of stream every message has been returned.
C3_StreamingDecoderFraming ==
    /\ Len(received) <= Len(sentMsgs)
    /\ received = ExpectedResults(Len(received))
    /\ buffer \o netPending
         = WireOf(SubSeq(sentMsgs, Len(received) + 1, Len(sentMsgs)))
    /\ rxPc = "eof" => received = ExpectedResults(Len(sentMsgs))
    /\ rxPc # "failed"

\* two messages were returned from a stream read in chunks, the second one
\* a Piece that followed a different message in the same stream
C3_Witness ==
    /\ rxPc = "eof"
    /\ Len(received) = 2
    /\ received[1].msg[1].message_type # "Piece"
    /\ received[2].msg[1].message_type = "Piece"

\* C4: for every well-formed message m, deserialize(serialize(m)) succeeds
\* and returns a message with the type and the payload of m.
C4_MessageRoundTrip ==
    (codecPc = "deserialized" /\ IsValid(msg)) =>
        /\ decoded.ok
        /\ decoded.msg[1].message_type = msg.message_type
        /\ decoded.msg[1].payload = msg.payload

\* a Piece message with a non-empty block went through serialize and deserialize
C4_Witness ==
    /\ codecPc = "deserialized"
    /\ msg = PieceMsg(1, 16384, <<255>>)
    /\ decoded.ok

\* the buffer starts with a length prefix above the cap of 2^17 bytes
ExceedsCap(buf) == Len(buf) >= 4 /\ GetU32(buf) > 131072

\* C20: once the decoder's buffer starts with a length prefix above 2^17, the
\* only thing receive_message does is return ProtocolError::MessageTooLarge: it
\* reads no further bytes into the buffer and returns nothing else.
C20_OversizeFrameRejected ==
    [][ExceedsCap(buffer) =>
          /\ received' = Append(received, ErrMsg("MessageTooLarge"))
          /\ Len(buffer') <= Len(buffer)]_vars

(***************************************************************************)
(* Claims about the handshake codec.                                       *)
(***************************************************************************)

\* C5: the serialization of a handshake built from any info_hash and peer_id
\* is exactly 68 bytes, and deserializing those bytes succeeds with the
\* protocol identifier, reserved bytes, info_hash and peer_id of the original.
C5_HandshakeRoundTrip ==
    /\ (hsPc # "built" /\ hsTampers = 0) => Len(hsBytes) = 68
    /\ (hsPc = "deserialized" /\ hsTampers = 0) =>
          /\ hsOut.ok
          /\ hsOut.hs[1].protocol_identifier = hs.protocol_identifier
          /\ hsOut.hs[1].reserved = hs.reserved
          /\ hsOut.hs[1].info_hash = hs.info_hash
          /\ hsOut.hs[1].peer_id = hs.peer_id

\* a handshake whose info_hash and peer_id differ was serialized and
\* deserialized from the unaltered bytes
C5_Witness ==
    /\ hsPc = "deserialized"
    /\ hsTampers = 0
    /\ hs.info_hash # hs.peer_id
    /\ hsOut.ok

\* the buffer is not 68 bytes long, or its first byte is not 19, or the 19
\* bytes after the first are not "BitTorrent protocol"
MalformedHandshakeBuffer ==
    \/ Len(hsBytes) # 68
    \/ hsBytes[1] # 19
    \/ SubSeq(hsBytes, 2, 20) # ProtocolIdentifier

\* C6: Handshake::deserialize returns an error, and no Handshake, for every
\* buffer of a length other than 68, with pstrlen other than 19, or with a
\* protocol literal other than "BitTorrent protocol".
C6_HandshakeRejectsMalformed ==
    (hsPc = "deserialized" /\ MalformedHandshakeBuffer) =>
        (~hsOut.ok /\ hsOut.hs = <<>>)

\* a 68-byte buffer with pstrlen 19 whose literal differs in its last byte
\* was handed to deserialize
C6_Witness ==
    /\ hsPc = "deserialized"
    /\ Len(hsBytes) = 68
    /\ hsBytes[1] = 19
    /\ hsBytes[20] # ProtocolIdentifier[19]
    /\ ~hsOut.ok

(***************************************************************************)
(* Claims about the peer registry.                                         *)
(***************************************************************************)

\* the registered peers we are not choking
UnchokedNow == {q \in RegisteredIds : peers[q].am_choking = "Unchoked"}

\* C10: once an update_choking round has completed, at most max_unchoked (4)
\* registered peers have am_choking = Unchoked, whatever rounds, add_peer and
\* remove_peer calls follow.
C10_ChokingQuota ==
    chokeRounds => Cardinality(UnchokedNow) <= 4

\* a round has filled the three regular slots and the optimistic slot while a
\* fifth interested peer stays choked
C10_Witness ==
    /\ chokeRounds
    /\ Cardinality(UnchokedNow) = 4
    /\ Cardinality(InterestedPeers) >= 5

\* C8: for every peer, the number of entries in pending_requests is at most
\* max_requests (5), after any add_request, remove_request and
\* best_peers_for_piece calls.
C8_PipelineBound ==
    \A q \in RegisteredIds :
        Cardinality(peers[q].pending_requests) <= 5

\* C11: once an update_choking round has completed, whenever some registered
\* peer has peer_interested = Interested, at least one peer with
\* peer_interested = Interested has am_choking = Unchoked, also between rounds.
C11_InterestedPeerServed ==
    chokeRounds /\ InterestedPeers # {} =>
        \E q \in InterestedPeers : peers[q].am_choking = "Unchoked"

\* C12: the registry never holds more than max_peers peers, and the error an
\* add_peer returns when it is refused is one that reports the overflow, not
\* PeerError::NotFound, which reports a peer missing from the registry.
C12_RegistryCapacity ==
    /\ Cardinality(RegisteredIds) <= max_peers
    /\ regRet.op = "add_peer" /\ regRet.ret # "Ok" => regRet.ret # "Err(NotFound)"

\* the pieces we lack that at least one Ready peer advertises
LackedAndOffered ==
    {i \in 0 .. (num_pieces - 1) : i \notin our_bitfield /\ PieceCount(i) >= 1}

\* C13: the sequence rarest_pieces returns holds no piece we already have; its
\* head is a piece we lack that some peer has, and no piece we lack that a
\* Ready peer advertises is advertised by strictly fewer Ready peers.
C13_RarestFirstPick ==
    regRet.op = "rarest_pieces" /\ lastRarest # <<>> =>
        /\ \A k \in DOMAIN lastRarest : lastRarest[k].piece \notin our_bitfield
        /\ lastRarest[1].piece \in MissingPiecesAvailable
        /\ \A i \in LackedAndOffered : PieceCount(i) >= lastRarest[1].count

\* C14: the sequence rarest_pieces returns is ascending in the number of Ready
\* peers that advertise the piece, and pieces of equal count are in ascending
\* piece-index order.
C14_RarestOrderDeterministic ==
    regRet.op = "rarest_pieces" =>
        \A a, b \in DOMAIN lastRarest :
            a < b =>
                \/ lastRarest[a].count < lastRarest[b].count
                \/ /\ lastRarest[a].count = lastRarest[b].count
                   /\ lastRarest[a].piece < lastRarest[b].piece

(***************************************************************************)
(* Claims about the peer session.                                          *)
(***************************************************************************)

\* C7: every Keep-Alive a session writes appears on the wire as exactly the
\* four bytes 00 00 00 00: a zero length prefix, no id byte, no payload.
C7_KeepAliveWireForm ==
    \A k \in 1 .. Len(sessOut) :
        sessOut[k].msg.message_type = "KeepAlive" => sessOut[k].bytes = <<0, 0, 0, 0>>

\* C17: when handle_message returns from a Choke of the peer, peer_choking of
\* the peer is Choked and its pending_requests is empty; when it returns from
\* an Unchoke, peer_choking of the peer is Unchoked.
C17_ChokeCancelsOutstanding ==
    sessHandled # None =>
        /\ Unwrap(sessHandled).message_type = "Choke" =>
               /\ Unwrap(sessHandled).peer_choking = "Choked"
               /\ Unwrap(sessHandled).pending_requests = {}
        /\ Unwrap(sessHandled).message_type = "Unchoke" =>
               Unwrap(sessHandled).peer_choking = "Unchoked"

\* C18: in every run of a session in which no I/O error ends the message
\* loop, the client eventually is complete and stays complete.
C18_Convergence ==
    [](sessPc # "closed") => <>[]IsComplete

\* C9: a session never writes a Piece message to a peer while am_choking of
\* that peer is Choked.
C9_NoPieceWhileChoking ==
    \A k \in 1 .. Len(sessOut) :
        sessOut[k].msg.message_type = "Piece" => sessOut[k].am_choking = "Unchoked"

\* C23: whenever a peer session ends (the remote closed the stream, an I/O
\* error, an error while handling a message) its peer is no longer in the
\* registry.
C23_EndedSessionUnregistered ==
    sessPc = "closed" => SessPeer \notin RegisteredIds

\* the peers a request for piece i is outstanding at
InFlightAt(i) == {q \in RegisteredIds : HasRequest(peers[q], i)}

\* C24: a piece is in flight to at most one peer: requests issued through
\* best_peers_for_piece followed by add_request never put the same piece at a
\* second peer while the first peer's request has not been removed.
C24_SingleInFlight ==
    \A i \in DispatchPieces : Cardinality(InFlightAt(i)) <= 1

\* the block a Piece message carries lies within its piece
PieceWithinBounds(m) ==
    LET offset == GetU32(SubSeq(m.payload, 5, 8))
        length == Len(m.payload) - 8
    IN  /\ length <= MaxBlockLength
        /\ offset + length <= SessPieceLen

\* C27: a Request whose length exceeds 16384 or whose block exceeds the piece
\* bounds is ignored: every Piece the session sends answers a Request within
\* the bounds, so it carries a block within the bounds.
C27_NoPieceForInvalidRequest ==
    \A k \in 1 .. Len(sessOut) :
        sessOut[k].msg.message_type = "Piece" => PieceWithinBounds(sessOut[k].msg)

(***************************************************************************)
(* Claims about the bitfield.                                              *)
(***************************************************************************)

\* bit p (0-based, most significant bit of the first byte first) of raw
RawBit(raw, p) == (raw[(p \div 8) + 1] \div 2^(7 - (p % 8))) % 2 = 1

\* raw has a non-zero bit at a position >= n
SpareBitSet(raw, n) == \E p \in n .. 8 * Len(raw) - 1 : RawBit(raw, p)

\* C21: Bitfield::from_bytes(raw, n) yields a bitfield of exactly n bits, bit
\* i being bit i of raw where raw has one and zero elsewhere, and it rejects
\* with InvalidBitfield every raw that has a non-zero bit at a position >= n.
C21_FromBytesSizedAndStrict ==
    bf_op.op = "from_bytes" =>
        /\ Len(bf_bits) = bf_op.n
        /\ \A i \in 0 .. bf_op.n - 1 :
               bf_bits[i + 1] = (i < 8 * Len(bf_bytes) /\ RawBit(bf_bytes, i))
        /\ SpareBitSet(bf_bytes, bf_op.n) => bf_op.ret = "Err(InvalidBitfield)"

\* C22: for every bitfield b over n pieces reached from new by set_piece and
\* unset_piece, to_bytes(b) has ceil(n / 8) bytes, piece i is the bit of
\* weight 2^(7 - i mod 8) of byte i div 8, the padding bits of the last byte
\* are zero, and from_bytes(to_bytes(b), n) = b.
C22_ToBytesLayout ==
    LET n == Len(bf_bits)
        b == ToBytes(bf_bits)
    IN  /\ Len(b) = (n + 7) \div 8
        /\ \A k \in 1 .. Len(b) : b[k] \in 0 .. 255
        /\ \A i \in 0 .. n - 1 :
               ((b[(i \div 8) + 1] \div 2^(7 - (i % 8))) % 2 = 1) = bf_bits[i + 1]
        /\ ~SpareBitSet(b, n)
        /\ FromBytes(b, n) = bf_bits

C22_Witness ==
    /\ bf_op.op = "to_bytes"
    /\ Len(bf_bits) > 8
    /\ Len(bf_bits) % 8 # 0
    /\ bf_bits[2]
    /\ bf_bits[9]
    /\ ~bf_bits[1]
    /\ bf_bytes = ToBytes(bf_bits)
    /\ FromBytes(bf_bytes, Len(bf_bits)) = bf_bits

(***************************************************************************)
(* Claims about request validation.                                        *)
(***************************************************************************)

\* length > 0, length <= 16384 and offset + length <= max_piece_size, the sum
\* taken over the integers
RequestWithinBounds(m, max_piece_size) ==
    /\ ParseRequestU32Ok(m)
    /\ LET r == ParseRequestU32(m)
           s == AddU32(r.offset, r.length)
       IN  /\ r.length # U32Of(0)
           /\ LeqU32(r.length, U32Of(MaxBlockLength))
           /\ ~s.overflow
           /\ LeqU32(s.sum, max_piece_size)

\* C26: validate_request(max_piece_size) returns true exactly when
\* length > 0, length <= 16384 and offset + length <= max_piece_size as
\* mathematical integers, also when offset + length exceeds 2^32 - 1.
C26_ValidateRequestExact ==
    vr_ret # "none" => vr_ret = BoolStr(RequestWithinBounds(vr_msg, vr_max))

(***************************************************************************)
(* Claims about the file layout of the file manager.                       *)
(***************************************************************************)

\* C29: in scan_existing_files and flush_to_disk the i-th path handed to
\* load_from_files / write_to_files is the path of the i-th declared file,
\* paired with that file's length, for torrents with any number of files.
C29_PathsInDeclaredOrder ==
    lastOp.op \in {"scan_existing_files", "flush_to_disk"} =>
        \A i \in 1 .. Len(file_sizes) : path_order[i] = i

(***************************************************************************)
(* Claims about inbound connections.                                       *)
(***************************************************************************)

\* C30: on an inbound connection the session reads the remote's handshake
\* before it sends its own; the handshake it sends carries the info_hash
\* the remote asked for; and an inbound handshake whose info_hash is not
\* registered never adds a peer.
C30_InboundRepliesToRemote ==
    /\ \A k \in 1 .. Len(connLog) :
           connLog[k].op = "write" =>
               \E j \in 1 .. (k - 1) :
                   /\ connLog[j].op = "read"
                   /\ InfoHashOf(connLog[k].bytes) = InfoHashOf(connLog[j].bytes)
    /\ connPc = "loop" =>
           /\ SessPeer \in RegisteredIds
           /\ \E j \in 1 .. Len(connLog) :
                  /\ connLog[j].op = "read"
                  /\ InfoHashOf(connLog[j].bytes) \in torrents
    /\ (\A j \in 1 .. Len(connLog) :
            connLog[j].op = "read" => InfoHashOf(connLog[j].bytes) \notin torrents)
           => SessPeer \notin RegisteredIds

\* the peer_id field of 68 handshake bytes
PeerIdOf(bytes) == SubSeq(bytes, 49, 68)

\* the remote announced the peer_id this client announced
SelfConnection ==
    \E j, k \in 1 .. Len(connLog) :
        /\ connLog[j].op = "read"
        /\ connLog[k].op = "write"
        /\ PeerIdOf(connLog[j].bytes) = PeerIdOf(connLog[k].bytes)

\* C31: a connection whose remote peer_id equals our own peer_id is closed
\* during the handshake: it never adds a peer to the registry and never
\* enters the message loop.
C31_SelfConnectionClosed ==
    SelfConnection => connPc # "loop" /\ SessPeer \notin RegisteredIds

(***************************************************************************)
(* Claims about the stall limit of a session.                              *)
(***************************************************************************)
Stalled == stall_pc = "loop" /\ stall_idle > StallLimit

\* C32: a session that has received no message for longer than the stall
\* limit eventually leaves the message loop, also while its own Keep-Alive
\* writes keep succeeding.
C32_StalledSessionFails == Stalled ~> (stall_pc = "closed")

(***************************************************************************)
(* Claims about the registry's view of a running session.                  *)
(***************************************************************************)
\* C33: while the message loop of a session runs for a peer, the registry
\* records the peer in state Ready, so that connected_peer_count counts it.
C33_LoopPeerIsReady == sessPc = "loop" => SessPeer \in RegisteredIds /\ peers[SessPeer].state = "Ready" /\ ConnectedPeerCount(peers) >= 1

(***************************************************************************)
(* Claims about ConnectionManager.                                         *)
(***************************************************************************)
\* C34: send_message, receive_message and receive_message_timeout exchange
\* a regular message only while the state is Connected.
C34_ExchangeOnlyWhenConnected == cm_last.exchanged # None => cm_last.before = "Connected"

\* C35: every failed attempt of connect leaves the state Failed, and only a
\* completed handshake leaves it Connected.
C35_ConnectOutcomeState == cm_last.op = "connect" => (IF cm_last.ret = "Ok" THEN cm_state = "Connected" ELSE cm_state = "Failed")

(***************************************************************************)
(* Claims about the optimistic unchoke slot and the unchoked set.          *)
(***************************************************************************)
RoundDone == regRet = RegRet("update_choking", "round")

\* C36: after a round of update_choking in which the optimistic slot is
\* occupied, the peer in the slot is interested and is not one of the
\* regular unchokes of the round.
C36_OptimisticInterestedNotRegular == RoundDone /\ optimistic_unchoke # None => Unwrap(optimistic_unchoke) \in InterestedPeers /\ \E T \in TopUploaders(RegularSlots) : Unwrap(optimistic_unchoke) \notin T /\ unchoked_peers = T \cup {Unwrap(optimistic_unchoke)}

\* C37: after any sequence of add_peer, remove_peer, update_choking and
\* cleanup_stale_peers, unchoked_peers is the set of registered peers whose
\* am_choking is Unchoked, and the optimistic slot names a registered peer.
C37_UnchokedSetConsistent == unchoked_peers \subseteq RegisteredIds /\ unchoked_peers = {q \in RegisteredIds : peers[q].am_choking = "Unchoked"} /\ (optimistic_unchoke # None => Unwrap(optimistic_unchoke) \in RegisteredIds)

\* cleanup_stale_peers has removed an unchoked peer and left the slot occupied
C37_Witness == regRet.op = "cleanup_stale_peers" /\ optimistic_unchoke # None /\ unchoked_peers # {} /\ Cardinality(unchoked_peers) < MaxUnchoked

(***************************************************************************)
(* Claims about scanning files that are shorter than declared.             *)
(***************************************************************************)
\* the byte range of piece i lies within the files as they are on disk
RECURSIVE RangeOnDisk(_, _, _)
RangeOnDisk(first, last, f) ==
    IF f > Len(file_sizes) \/ first > last
    THEN first > last
    ELSE IF first > file_sizes[f]
         THEN RangeOnDisk(first - file_sizes[f], last - file_sizes[f], f + 1)
         ELSE /\ Min(last, file_sizes[f]) <= Len(files[f])
              /\ RangeOnDisk(1, last - file_sizes[f], f + 1)

\* C38: scan_existing_files returns for every on-disk state, files shorter
\* than declared included, and leaves the bit clear for every piece whose
\* byte range is not fully on disk.
C38_ScanTerminates == lastOp.op = "scan_existing_files" => lastOp.ret = "Ok" /\ \A i \in PieceIdx : bitfield[i] => RangeOnDisk(i * PieceLen + 1, (i + 1) * PieceLen, 1)

(***************************************************************************)
(* Claims about the peer counts.                                           *)
(***************************************************************************)
\* C39: leecher_count() is the number of Ready peers whose bitfield is not
\* complete, and its subtraction never goes below zero.
C39_LeecherCountExact == regRet.op = "leecher_count" => regRet.ret = "Ok" /\ regRet.n = Cardinality({q \in RegisteredIds : peers[q].state = "Ready" /\ ~IsSeeder(peers, q)})

(***************************************************************************)
(* Claims about the locks of NetworkManager.                               *)
(***************************************************************************)
\* task t waits for a lock
LockWaiting(t) == \E l \in Locks : \E k \in 1 .. Len(lk_queue[l]) : lk_queue[l][k].task = t

\* the guards of task t that are alive
GuardsOf(t) == {l \in Locks : \E g \in lk_held[l] : g.task = t}

\* C40: the tasks never deadlock on peer_manager and torrent_info: under
\* fair scheduling every task that requests a lock acquires it, and a task
\* that has returned, with Ok or with an error, holds no guard.
C40_LocksGrantedAndReleased == [](\A t \in LockTasks : lk_pc[t].at = "done" => GuardsOf(t) = {}) /\ \A t \in LockTasks : LockWaiting(t) ~> ~LockWaiting(t)

\* connect_to_peer holds the write guard of peer_manager and waits for
\* torrent_info while add_torrent_info holds its write guard
C40_Witness == \E t, u \in LockTasks : lk_pc[t] = At("connect_to_peer", "wait_torrent_info") /\ GuardsOf(t) = {"peer_manager"} /\ lk_pc[u] = At("add_torrent_info", "has_torrent_info") /\ LockWaiting(t)

====
